---- MODULE Spec2Model ----
(***************************************************************************)
(* Model of the bulk Excel-to-star-schema loader, app/utils/data_loader.py *)
(* (class dbDataLoader), and of its caller app/blueprints/upload.py.       *)
(*                                                                         *)
(* Text values are sequences of one-character strings, so that strip(),    *)
(* split(), zfill() and the '|'-joined lookup keys are computed as the     *)
(* code computes them.  A missing cell (pandas NaN / None) is the value    *)
(* NaN.  Money is counted in units of 1/MoneyScale of a currency unit.     *)
(***************************************************************************)
EXTENDS Integers, Sequences, FiniteSets, TLC

\* ------------------------------------------------------------------ bounds
MaxRows == 2
MaxLoads == 2
MoneyScale == 2

\* ------------------------------------------------------- values and text
None == 0
NaN == <<"<NaN>">>
IsNa(v) == v = NaN

Digits == {"0", "1", "2", "3", "4", "5", "6", "7", "8", "9"}
DigitVal(c) ==
    CASE c = "0" -> 0 [] c = "1" -> 1 [] c = "2" -> 2 [] c = "3" -> 3 [] c = "4" -> 4
      [] c = "5" -> 5 [] c = "6" -> 6 [] c = "7" -> 7 [] c = "8" -> 8 [] c = "9" -> 9
DigitChar(n) == <<"0", "1", "2", "3", "4", "5", "6", "7", "8", "9">>[n + 1]

IsDigits(s) == Len(s) > 0 /\ \A i \in 1..Len(s) : s[i] \in Digits

RECURSIVE ToInt(_)
ToInt(s) == IF s = <<>> THEN 0 ELSE 10 * ToInt(SubSeq(s, 1, Len(s) - 1)) + DigitVal(s[Len(s)])

\* f"{n:02d}" and f"{n:04d}"
Pad2(n) == <<DigitChar((n \div 10) % 10), DigitChar(n % 10)>>
Pad4(n) == <<DigitChar((n \div 1000) % 10), DigitChar((n \div 100) % 10)>> \o Pad2(n % 100)

LowerChar(c) ==
    CASE c = "N" -> "n" [] c = "A" -> "a" [] c = "J" -> "j" [] c = "M" -> "m"
      [] c = "C" -> "c" [] c = "B" -> "b" [] c = "S" -> "s" [] OTHER -> c
Lower(s) == [i \in 1..Len(s) |-> LowerChar(s[i])]

RECURSIVE LStrip(_)
LStrip(s) == IF s # <<>> /\ Head(s) = " " THEN LStrip(Tail(s)) ELSE s
RECURSIVE RStrip(_)
RStrip(s) == IF s # <<>> /\ s[Len(s)] = " " THEN RStrip(SubSeq(s, 1, Len(s) - 1)) ELSE s
Strip(s) == RStrip(LStrip(s))

StartsWith(s, p) == Len(s) >= Len(p) /\ SubSeq(s, 1, Len(p)) = p
Contains(s, c) == \E i \in 1..Len(s) : s[i] = c

\* str.split(sep): the pieces between the separators, empty pieces kept
RECURSIVE Split(_, _)
Split(s, sep) ==
    IF ~Contains(s, sep) THEN <<s>>
    ELSE LET i == CHOOSE k \in 1..Len(s) : s[k] = sep /\ \A j \in 1..(k - 1) : s[j] # sep
         IN  <<SubSeq(s, 1, i - 1)>> \o Split(SubSeq(s, i + 1, Len(s)), sep)

\* str.split(): split on runs of whitespace; the first piece is what the code uses
FirstWord(s) ==
    LET t == LStrip(s)
    IN  IF ~Contains(t, " ") THEN t
        ELSE SubSeq(t, 1, (CHOOSE k \in 1..Len(t) : t[k] = " " /\ \A j \in 1..(k - 1) : t[j] # " ") - 1)

\* str.zfill(2)
ZFill2(s) == IF Len(s) >= 2 THEN s ELSE IF Len(s) = 1 THEN <<"0">> \o s ELSE <<"0", "0">>

Bar == <<"|">>
Colon == <<":">>

\* ------------------------------------------------------------ Row Cleaner
\* _clean_string
CleanString(value, default) ==
    IF IsNa(value) THEN default
    ELSE LET cleaned == Strip(value)
         IN  IF cleaned # <<>> /\ Lower(cleaned) # <<"n", "a", "n">> THEN cleaned ELSE default

UnknownEmployee == <<"U", "n", "k", "E">>
UnknownClient == <<"U", "n", "k", "C">>
UnknownJob == <<"U", "n", "k", "J">>
UnknownShift == <<"U", "n", "k", "S">>
Empty == <<>>

\* A datetime.time cell is <<"@time", H, H, M, M, S, S>>; value.strftime('%H:%M:%S')
IsTimeObject(v) == Len(v) = 7 /\ v[1] = "@time"
StrfTime(v) == <<v[2], v[3], ":", v[4], v[5], ":", v[6], v[7]>>
Midnight == <<"0", "0", ":", "0", "0", ":", "0", "0">>

\* float(value_str) succeeds on d+, d+.d*, .d+ ; the integer part is returned, -1 when it raises
FloatIntPart(s) ==
    LET parts == Split(s, ".")
        okPart(p) == p = <<>> \/ IsDigits(p)
    IN  IF Len(parts) = 1 /\ IsDigits(s) THEN ToInt(s)
        ELSE IF Len(parts) = 2 /\ okPart(parts[1]) /\ okPart(parts[2])
                /\ ~(parts[1] = <<>> /\ parts[2] = <<>>)
             THEN ToInt(parts[1])
             ELSE -1

\* the branches of _clean_time on the lower-cased, stripped text
TimeFromParts(parts) ==
    ZFill2(parts[1]) \o Colon \o ZFill2(parts[2]) \o Colon
        \o (IF Len(parts) > 2 THEN ZFill2(parts[3]) ELSE <<"0", "0">>)
TimeFromHours(hours) ==
    IF 0 <= hours /\ hours < 24 THEN Pad2(hours) \o Colon \o <<"0", "0">> \o Colon \o <<"0", "0">>
    ELSE Midnight
TimeFromText(value_str) ==
    IF value_str = <<>> \/ value_str = <<"n", "a", "n">> THEN Midnight
    ELSE IF Contains(value_str, ":") THEN TimeFromParts(Split(value_str, ":"))
    ELSE TimeFromHours(FloatIntPart(value_str))

\* _clean_time
CleanTime(value) ==
    IF IsNa(value) THEN Midnight
    ELSE IF IsTimeObject(value) THEN StrfTime(value)
    ELSE TimeFromText(Lower(Strip(value)))

\* What the Time column of dim_shifts accepts: HH:MM:SS within range
ValidTimeText(s) ==
    /\ Len(s) = 8 /\ s[3] = ":" /\ s[6] = ":"
    /\ IsDigits(SubSeq(s, 1, 2)) /\ IsDigits(SubSeq(s, 4, 5)) /\ IsDigits(SubSeq(s, 7, 8))
    /\ ToInt(SubSeq(s, 1, 2)) < 24 /\ ToInt(SubSeq(s, 4, 5)) < 60 /\ ToInt(SubSeq(s, 7, 8)) < 60

\* calendar
IsLeap(y) == (y % 4 = 0 /\ y % 100 # 0) \/ y % 400 = 0
DaysIn(y, m) ==
    IF m = 2 THEN (IF IsLeap(y) THEN 29 ELSE 28)
    ELSE IF m \in {4, 6, 9, 11} THEN 30 ELSE 31
ValidDate(y, m, d) == y >= 1 /\ m \in 1..12 /\ d >= 1 /\ d <= DaysIn(y, m)

\* A pandas Timestamp cell is <<"@ts", Y, Y, Y, Y, M, M, D, D>>; str(value)
IsTimestamp(v) == Len(v) = 9 /\ v[1] = "@ts"
StrTimestamp(v) ==
    <<v[2], v[3], v[4], v[5], "-", v[6], v[7], "-", v[8], v[9], " ">> \o Midnight

\* re.search(r'\d{4}-\d{2}-\d{2}', s): the leftmost match, <<>> when there is none
IsIsoShape(s) ==
    /\ Len(s) = 10 /\ s[5] = "-" /\ s[8] = "-"
    /\ IsDigits(SubSeq(s, 1, 4)) /\ IsDigits(SubSeq(s, 6, 7)) /\ IsDigits(SubSeq(s, 9, 10))
DateMatch(s) ==
    LET hits == {i \in 1..Len(s) : i + 9 <= Len(s) /\ IsIsoShape(SubSeq(s, i, i + 9))}
    IN  IF hits = {} THEN <<>>
        ELSE LET i == CHOOSE k \in hits : \A j \in hits : k <= j IN SubSeq(s, i, i + 9)

\* pd.to_datetime(date_str) followed by the strptime formats of the fallback
\* loop; the result is <<year, month, day>>, or <<>> when every attempt raises.
\* A year-first text is year, month, day; a year-last text is read month
\* first and, when that is no date, day first.
DateOrNone(y, m, d) == IF ValidDate(y, m, d) THEN <<y, m, d>> ELSE <<>>
YearLast(y, a, b) == IF ValidDate(y, a, b) THEN <<y, a, b>> ELSE DateOrNone(y, b, a)
ParseParts(p) ==
    IF Len(p) # 3 \/ ~(\A i \in 1..3 : IsDigits(p[i])) THEN <<>>
    ELSE IF Len(p[1]) = 4 /\ Len(p[2]) <= 2 /\ Len(p[3]) <= 2
         THEN DateOrNone(ToInt(p[1]), ToInt(p[2]), ToInt(p[3]))
    ELSE IF Len(p[3]) = 4 /\ Len(p[1]) <= 2 /\ Len(p[2]) <= 2
         THEN YearLast(ToInt(p[3]), ToInt(p[1]), ToInt(p[2]))
    ELSE <<>>
DateSeparator(s) ==
    IF Contains(s, "-") THEN "-" ELSE IF Contains(s, "/") THEN "/" ELSE "."
ParseDate(s) == ParseParts(Split(s, DateSeparator(s)))

default_date == <<"2", "0", "0", "0", "-", "0", "1", "-", "0", "1">>
default_id == 20000101

DateIdOf(ymd) == ymd[1] * 10000 + ymd[2] * 100 + ymd[3]
\* a faulty variant of DateText that writes the day first
DateTextDayFirst(ymd) == Pad2(ymd[3]) \o <<"-">> \o Pad2(ymd[2]) \o <<"-">> \o Pad4(ymd[1])
\* parsed_date.strftime('%Y-%m-%d')
DateText(ymd) == Pad4(ymd[1]) \o <<"-">> \o Pad2(ymd[2]) \o <<"-">> \o Pad2(ymd[3])

DateResult(parsed) ==
    IF parsed = <<>> THEN <<default_date, default_id>>
    ELSE <<DateText(parsed), DateIdOf(parsed)>>
\* the text that is parsed: stripped, cut at the first blank
DateWord(stripped) == IF Contains(stripped, " ") THEN FirstWord(stripped) ELSE stripped
\* a text starting with '=': the embedded YYYY-MM-DD, the sentinel when there is none
FromFormula(match) ==
    IF match = <<>> THEN <<default_date, default_id>>
    ELSE DateResult(ParseDate(DateWord(Strip(match))))

\* _clean_date_with_id: the pair <<date_str, date_id>>
CleanDateWithId(date_value) ==
    IF IsNa(date_value) THEN <<default_date, default_id>>
    ELSE IF IsTimestamp(date_value)
         THEN DateResult(ParseDate(DateWord(Strip(StrTimestamp(date_value)))))
    ELSE IF StartsWith(date_value, <<"=">>) THEN FromFormula(DateMatch(date_value))
    ELSE DateResult(ParseDate(DateWord(Strip(date_value))))

\* A numeric cell is [k, n]: a number n ("num"), a string starting with '='
\* ("formula"), any other non-numeric string ("text"), or missing ("nan").
Num(n) == [k |-> "num", n |-> n]
Formula == [k |-> "formula", n |-> 0]
\* _safe_float
SafeFloat(cell) == IF cell.k = "num" THEN cell.n ELSE 0
\* pd.to_numeric(errors='coerce').fillna(0)
ToNumeric(cell) == IF cell.k = "num" THEN cell.n ELSE 0

UpperChar(c) ==
    CASE c = "n" -> "N" [] c = "a" -> "A" [] c = "s" -> "S" [] c = "l" -> "L"
      [] c = "k" -> "K" [] c = "o" -> "O" [] OTHER -> c
Upper(s) == [i \in 1..Len(s) |-> UpperChar(s[i])]

\* ------------------------------------------------------------- utilities
Max(S) == CHOOSE x \in S : \A y \in S : y <= x
Min(S) == CHOOSE x \in S : \A y \in S : x <= y
Range(f) == {f[i] : i \in DOMAIN f}
RECURSIVE SumSeq(_)
SumSeq(q) == IF q = <<>> THEN 0 ELSE Head(q) + SumSeq(Tail(q))
Abs(x) == IF x < 0 THEN -x ELSE x

\* DataFrame.drop_duplicates(): first occurrences, in order
RECURSIVE DropDuplicates(_)
DropDuplicates(q) ==
    IF q = <<>> THEN <<>>
    ELSE LET front == DropDuplicates(SubSeq(q, 1, Len(q) - 1))
             last == q[Len(q)]
         IN  IF last \in Range(front) THEN front ELSE Append(front, last)

\* A DataFrame is a sequence of [idx, row]: idx is the index label (the

\* dict.get(key): None when the key is absent
Get(map, key) == IF key \in DOMAIN map THEN map[key] ELSE None
Put(map, key, val) == [k \in DOMAIN map \cup {key} |-> IF k = key THEN val ELSE map[k]]
EmptyMap == <<>>

\* ------------------------------------------------- Dimension Resolvers
\* A resolver reads the whole table into a dict (the last row of a key wins),
\* stages the keys it does not hold, bulk-inserts them and re-queries their
\* ids.  A staging state is [map, new].
NoneStaged == [map |-> EmptyMap, new |-> <<>>]

\* -- employees
EmployeeKey(row) == CleanString(row.full_name, UnknownEmployee)
ExistingEmployee(table, name) ==
    LET hits == {i \in 1..Len(table) : table[i].full_name = name}
    IN  IF hits = {} THEN None ELSE table[Max(hits)].employee_id

\* a faulty variant of StageEmployee that never reuses a stored row
StageEmployeeAnew(st, existing_id, full_name, role) ==
    IF full_name \in DOMAIN st.map THEN st
    ELSE [map |-> Put(st.map, full_name, None),
          new |-> Append(st.new, [full_name |-> full_name, role |-> role])]

StageEmployee(st, existing_id, full_name, role) ==
    IF full_name \in DOMAIN st.map THEN st
    ELSE IF existing_id # None
         THEN [map |-> Put(st.map, full_name, existing_id), new |-> st.new]
         ELSE [map |-> Put(st.map, full_name, None),
               new |-> Append(st.new, [full_name |-> full_name, role |-> role])]

RECURSIVE StageEmployees(_, _, _)
StageEmployees(u, table, st) ==
    IF u = <<>> THEN st
    ELSE StageEmployees(Tail(u), table,
            StageEmployee(st, ExistingEmployee(table, EmployeeKey(Head(u))),
                          EmployeeKey(Head(u)), CleanString(Head(u).role, Empty)))

UniqueEmployees(df) ==
    DropDuplicates([i \in 1..Len(df) |->
        [full_name |-> df[i].row.full_name, role |-> df[i].row.role]])
InsertEmployees(table, new) ==
    table \o [i \in 1..Len(new) |->
        [employee_id |-> Len(table) + i, full_name |-> new[i].full_name, role |-> new[i].role]]
RequeryEmployees(st, inserted) ==
    [k \in DOMAIN st.map |->
        IF k \in {st.new[i].full_name : i \in 1..Len(st.new)}
        THEN ExistingEmployee(inserted, k) ELSE st.map[k]]
EmployeesStaged(table, st) ==
    [ok |-> TRUE, table |-> InsertEmployees(table, st.new),
     map |-> RequeryEmployees(st, InsertEmployees(table, st.new))]

\* _bulk_create_employees: [ok, table, map]
BulkCreateEmployees(table, df) ==
    EmployeesStaged(table, StageEmployees(UniqueEmployees(df), table, NoneStaged))

\* -- clients
ExistingClient(table, name) ==
    LET hits == {i \in 1..Len(table) : table[i].client_name = name}
    IN  IF hits = {} THEN None ELSE table[Max(hits)].client_id

\* the loop body: a name the table lacks is staged each time it is met
StageClient(st, existing_id, client_name) ==
    [map |-> Put(st.map, client_name, existing_id),
     new |-> IF existing_id = None THEN Append(st.new, client_name) ELSE st.new]

RECURSIVE StageClients(_, _, _)
StageClients(u, table, st) ==
    IF u = <<>> THEN st
    ELSE StageClients(Tail(u), table,
            StageClient(st, ExistingClient(table, CleanString(Head(u), UnknownClient)),
                        CleanString(Head(u), UnknownClient)))

\* dim_clients.client_name is UNIQUE: a batch holding a name twice, or a name
\* the table holds, is rejected as a whole
ClientsInsertFails(table, new) ==
    \/ \E i, j \in 1..Len(new) : i # j /\ new[i] = new[j]
    \/ \E i \in 1..Len(new) : ExistingClient(table, new[i]) # None

UniqueClients(df) == DropDuplicates([i \in 1..Len(df) |-> df[i].row.client])
InsertClients(table, new) ==
    table \o [i \in 1..Len(new) |-> [client_id |-> Len(table) + i, client_name |-> new[i]]]
RequeryClients(st, inserted) ==
    [k \in DOMAIN st.map |->
        IF k \in Range(st.new) THEN ExistingClient(inserted, k) ELSE st.map[k]]
ClientsStaged(table, st) ==
    IF ClientsInsertFails(table, st.new)
    THEN [ok |-> FALSE, table |-> table, map |-> st.map]
    ELSE [ok |-> TRUE, table |-> InsertClients(table, st.new),
          map |-> RequeryClients(st, InsertClients(table, st.new))]

\* _bulk_create_clients: [ok, table, map]; ~ok when the bulk insert raises
BulkCreateClients(table, df) ==
    ClientsStaged(table, StageClients(UniqueClients(df), table, NoneStaged))

\* -- jobs
JobKeyOf(job_name, location, site) == job_name \o Bar \o location \o Bar \o site
JobKey(row) ==
    JobKeyOf(CleanString(row.job_name, UnknownJob), CleanString(row.location, Empty),
             CleanString(row.site, Empty))
ExistingJob(table, name) ==
    LET hits == {i \in 1..Len(table) : table[i].job_name = name}
    IN  IF hits = {} THEN None ELSE table[Max(hits)].job_id

\* the loop body: the key, not the name, decides whether the row was seen
StageJob(st, existing_id, job_name, location, site) ==
    IF JobKeyOf(job_name, location, site) \in DOMAIN st.map THEN st
    ELSE [map |-> Put(st.map, JobKeyOf(job_name, location, site), existing_id),
          new |-> IF existing_id = None
                  THEN Append(st.new, [job_name |-> job_name, location |-> location,
                                       site |-> site])
                  ELSE st.new]

RECURSIVE StageJobs(_, _, _)
StageJobs(u, table, st) ==
    IF u = <<>> THEN st
    ELSE StageJobs(Tail(u), table,
            StageJob(st, ExistingJob(table, CleanString(Head(u).job_name, UnknownJob)),
                     CleanString(Head(u).job_name, UnknownJob),
                     CleanString(Head(u).location, Empty), CleanString(Head(u).site, Empty)))

\* the loop over new_jobs that rewrites every key starting with job_name + '|'
RemapJob(map, job_name, jid) ==
    [k \in DOMAIN map |-> IF StartsWith(k, job_name \o Bar) THEN jid ELSE map[k]]
RECURSIVE RemapJobs(_, _, _)
RemapJobs(new, table, map) ==
    IF new = <<>> THEN map
    ELSE RemapJobs(Tail(new), table,
                   RemapJob(map, Head(new).job_name, ExistingJob(table, Head(new).job_name)))

UniqueJobs(df) ==
    DropDuplicates([i \in 1..Len(df) |->
        [job_name |-> df[i].row.job_name, location |-> df[i].row.location,
         site |-> df[i].row.site]])
InsertJobs(table, new) ==
    table \o [i \in 1..Len(new) |->
        [job_id |-> Len(table) + i, job_name |-> new[i].job_name,
         location |-> new[i].location, site |-> new[i].site]]
JobsStaged(table, st) ==
    [ok |-> TRUE, table |-> InsertJobs(table, st.new),
     map |-> RemapJobs(st.new, InsertJobs(table, st.new), st.map)]

\* _bulk_create_jobs: [ok, table, map]
BulkCreateJobs(table, df) ==
    JobsStaged(table, StageJobs(UniqueJobs(df), table, NoneStaged))

\* -- shifts
ShiftKeyOf(name, start, end) == name \o Bar \o start \o Bar \o end
ShiftKey(row) ==
    ShiftKeyOf(CleanString(row.shift_name, UnknownShift), CleanTime(row.shift_start),
               CleanTime(row.shift_end))
\* existing_shifts: keyed by the composite text of each stored row
ExistingShift(table, key) ==
    LET hits == {i \in 1..Len(table) :
                    ShiftKeyOf(table[i].shift_name, table[i].shift_start, table[i].shift_end) = key}
    IN  IF hits = {} THEN None ELSE table[Max(hits)].shift_id
\* DimShift.query.filter_by(shift_name, shift_start, shift_end).first()
QueryShift(table, sh) ==
    LET hits == {i \in 1..Len(table) :
                    /\ table[i].shift_name = sh.shift_name
                    /\ table[i].shift_start = sh.shift_start
                    /\ table[i].shift_end = sh.shift_end}
    IN  IF hits = {} THEN None ELSE table[Min(hits)].shift_id

StageShift(st, existing_id, shift_key, shift) ==
    IF shift_key \in DOMAIN st.map THEN st
    ELSE IF existing_id # None
         THEN [map |-> Put(st.map, shift_key, existing_id), new |-> st.new]
         ELSE [map |-> Put(st.map, shift_key, None), new |-> Append(st.new, shift)]

CleanShift(row) ==
    [shift_name |-> CleanString(row.shift_name, UnknownShift),
     shift_start |-> CleanTime(row.shift_start), shift_end |-> CleanTime(row.shift_end)]

RECURSIVE StageShifts(_, _, _)
StageShifts(u, table, st) ==
    IF u = <<>> THEN st
    ELSE StageShifts(Tail(u), table,
            StageShift(st, ExistingShift(table, ShiftKey(Head(u))), ShiftKey(Head(u)),
                       CleanShift(Head(u))))

RequeryShift(map, sh, sid) ==
    IF sid # None THEN Put(map, ShiftKeyOf(sh.shift_name, sh.shift_start, sh.shift_end), sid)
    ELSE map
RECURSIVE RequeryShifts(_, _, _)
RequeryShifts(new, table, map) ==
    IF new = <<>> THEN map
    ELSE RequeryShifts(Tail(new), table, RequeryShift(map, Head(new), QueryShift(table, Head(new))))

\* shift_start and shift_end are Time columns: a text that is no time of day
\* makes the bulk insert raise
ShiftsInsertFails(new) ==
    \E i \in 1..Len(new) : ~ValidTimeText(new[i].shift_start) \/ ~ValidTimeText(new[i].shift_end)

UniqueShifts(df) ==
    DropDuplicates([i \in 1..Len(df) |->
        [shift_name |-> df[i].row.shift_name, shift_start |-> df[i].row.shift_start,
         shift_end |-> df[i].row.shift_end]])
InsertShifts(table, new) ==
    table \o [i \in 1..Len(new) |->
        [shift_id |-> Len(table) + i, shift_name |-> new[i].shift_name,
         shift_start |-> new[i].shift_start, shift_end |-> new[i].shift_end]]
ShiftsStaged(table, st) ==
    IF ShiftsInsertFails(st.new)
    THEN [ok |-> FALSE, table |-> table, map |-> st.map]
    ELSE [ok |-> TRUE, table |-> InsertShifts(table, st.new),
          map |-> RequeryShifts(st.new, InsertShifts(table, st.new), st.map)]

\* _bulk_create_shifts: [ok, table, map]
BulkCreateShifts(table, df) ==
    ShiftsStaged(table, StageShifts(UniqueShifts(df), table, NoneStaged))

\* -- dates (the descriptive columns month and day are carried like role and
\* are left out)
ExistingDate(table, date_str) ==
    LET hits == {i \in 1..Len(table) : table[i].date = date_str}
    IN  IF hits = {} THEN None ELSE table[Max(hits)].date_id

StageDate(st, existing_id, cleaned) ==
    IF cleaned[1] \in DOMAIN st.map THEN st
    ELSE IF existing_id # None
         THEN [map |-> Put(st.map, cleaned[1], existing_id), new |-> st.new]
         ELSE [map |-> Put(st.map, cleaned[1], cleaned[2]),
               new |-> Append(st.new, [date_id |-> cleaned[2], date |-> cleaned[1],
                                       year |-> cleaned[2] \div 10000])]

RECURSIVE StageDates(_, _, _)
StageDates(u, table, st) ==
    IF u = <<>> THEN st
    ELSE StageDates(Tail(u), table,
            StageDate(st, ExistingDate(table, CleanDateWithId(Head(u))[1]),
                      CleanDateWithId(Head(u))))

\* date_id is the primary key and date is UNIQUE
DatesInsertFails(table, new) ==
    \/ \E i, j \in 1..Len(new) : i # j /\ (new[i].date_id = new[j].date_id \/ new[i].date = new[j].date)
    \/ \E i \in 1..Len(new), j \in 1..Len(table) :
          new[i].date_id = table[j].date_id \/ new[i].date = table[j].date

\* both branches of the try re-query each new date by its text
RequeryDate(map, date_str, did) == IF did # None THEN Put(map, date_str, did) ELSE map
RECURSIVE RequeryDates(_, _, _)
RequeryDates(new, table, map) ==
    IF new = <<>> THEN map
    ELSE RequeryDates(Tail(new), table,
                      RequeryDate(map, Head(new).date, ExistingDate(table, Head(new).date)))

UniqueDates(df) == DropDuplicates([i \in 1..Len(df) |-> df[i].row.date])
InsertDates(table, new) == IF DatesInsertFails(table, new) THEN table ELSE table \o new
DatesStaged(table, st) ==
    [ok |-> TRUE, table |-> InsertDates(table, st.new),
     map |-> RequeryDates(st.new, InsertDates(table, st.new), st.map)]

\* _bulk_create_dates: [ok, table, map]; a failed insert is rolled back and swallowed
BulkCreateDates(table, df) ==
    DatesStaged(table, StageDates(UniqueDates(df), table, NoneStaged))

\* ------------------------------------------------------------ Fact Builder
\* the batch size of the bulk insert, scaled down (1000 in the program) so that
\* the facts of one workbook fill several batches
batch_size == 1

\* date ids of df['date'].unique()
FileDateIds(df) == {CleanDateWithId(df[i].row.date)[2] : i \in 1..Len(df)}

\* a faulty variant of KeysInRange that reads the keys of the first date only
KeysOfFirstDate(facts, lo, hi) ==
    {<<facts[i].employee_id, facts[i].date_id, facts[i].shift_id>> :
        i \in {j \in 1..Len(facts) : facts[j].date_id = lo}}
\* a faulty variant of ExistingKeys that takes no snapshot of the store
NoExistingKeys(facts, df) == {}

\* the snapshot of existing fact keys, scoped to the date-id range lo..hi
KeysInRange(facts, lo, hi) ==
    {<<facts[i].employee_id, facts[i].date_id, facts[i].shift_id>> :
        i \in {j \in 1..Len(facts) : facts[j].date_id >= lo /\ facts[j].date_id <= hi}}
KeysOfDates(facts, date_ids) ==
    IF date_ids = {} THEN {} ELSE KeysInRange(facts, Min(date_ids), Max(date_ids))
ExistingKeys(facts, df) == KeysOfDates(facts, FileDateIds(df))

\* the client_net of the fact: a formula string is recomputed from rate and hours
ClientNetValue(row) ==
    IF row.client_net.k = "formula"
    THEN SafeFloat(row.client_hourly_rate) * SafeFloat(row.paid_hours)
    ELSE SafeFloat(row.client_net)

FactRecord(row, maps) ==
    [employee_id |-> Get(maps.employees, EmployeeKey(row)),
     client_id |-> Get(maps.clients, CleanString(row.client, UnknownClient)),
     job_id |-> Get(maps.jobs, JobKey(row)),
     shift_id |-> Get(maps.shifts, ShiftKey(row)),
     date_id |-> Get(maps.dates, CleanDateWithId(row.date)[1]),
     paid_hours |-> SafeFloat(row.paid_hours),
     client_hourly_rate |-> SafeFloat(row.client_hourly_rate),
     client_net |-> ClientNetValue(row)]

\* a faulty variant of MissingKeysSkip that names the first missing dimension only
MissingKeysSkipFirst(rec, idx) ==
    [row |-> idx + 2, reason |-> "Missing Keys", duplicate_type |-> "none", original_row |-> 0,
     missing |-> IF rec.employee_id = None THEN <<"Employee">>
                 ELSE IF rec.date_id = None THEN <<"Date">> ELSE <<"Shift">>]
MissingKeysSkip(rec, idx) ==
    [row |-> idx + 2, reason |-> "Missing Keys", duplicate_type |-> "none", original_row |-> 0,
     missing |-> (IF rec.employee_id = None THEN <<"Employee">> ELSE <<>>)
                 \o (IF rec.date_id = None THEN <<"Date">> ELSE <<>>)
                 \o (IF rec.shift_id = None THEN <<"Shift">> ELSE <<>>)]
PreExistingSkip(idx) ==
    [row |-> idx + 2, reason |-> "Duplicate", duplicate_type |-> "pre_existing",
     original_row |-> 0, missing |-> <<>>]
IntraFileSkip(idx, original_row) ==
    [row |-> idx + 2, reason |-> "Duplicate", duplicate_type |-> "intra_file",
     original_row |-> original_row, missing |-> <<>>]

\* the existing_keys set after a fact has been staged (line 475)
KeysAfterStaging(existing_keys, key) == existing_keys \cup {key}

\* the body of the per-row loop: acc is [fact_records, skipped_details,
\* existing_keys, seen]; seen is seen_in_current_file
\* a faulty variant of BuildFact in which the last row of a key wins
BuildFactLastWins(acc, idx, rec, key) ==
    IF None \in {rec.employee_id, rec.date_id, rec.shift_id}
    THEN [acc EXCEPT !.skipped_details = Append(@, MissingKeysSkip(rec, idx))]
    ELSE IF key \in DOMAIN acc.seen
    THEN [fact_records |-> [n \in 1..Len(acc.fact_records) |->
                               IF <<acc.fact_records[n].employee_id, acc.fact_records[n].date_id,
                                    acc.fact_records[n].shift_id>> = key
                               THEN rec ELSE acc.fact_records[n]],
          skipped_details |-> Append(acc.skipped_details, IntraFileSkip(idx, acc.seen[key])),
          existing_keys |-> acc.existing_keys,
          seen |-> acc.seen]
    ELSE IF key \in acc.existing_keys
    THEN [acc EXCEPT !.skipped_details = Append(@, PreExistingSkip(idx))]
    ELSE [fact_records |-> Append(acc.fact_records, rec),
          skipped_details |-> acc.skipped_details,
          existing_keys |-> KeysAfterStaging(acc.existing_keys, key),
          seen |-> Put(acc.seen, key, idx + 2)]

\* a faulty variant of BuildFact without the check for missing keys
BuildFactUnkeyed(acc, idx, rec, key) ==
    IF key \in acc.existing_keys
    THEN [acc EXCEPT !.skipped_details = Append(@, PreExistingSkip(idx))]
    ELSE IF key \in DOMAIN acc.seen
    THEN [acc EXCEPT !.skipped_details = Append(@, IntraFileSkip(idx, acc.seen[key]))]
    ELSE [fact_records |-> Append(acc.fact_records, rec),
          skipped_details |-> acc.skipped_details,
          existing_keys |-> KeysAfterStaging(acc.existing_keys, key),
          seen |-> Put(acc.seen, key, idx + 2)]

BuildFact(acc, idx, rec, key) ==
    IF None \in {rec.employee_id, rec.date_id, rec.shift_id}
    THEN [acc EXCEPT !.skipped_details = Append(@, MissingKeysSkip(rec, idx))]
    ELSE IF key \in acc.existing_keys
    THEN [acc EXCEPT !.skipped_details = Append(@, PreExistingSkip(idx))]
    ELSE IF key \in DOMAIN acc.seen
    THEN [acc EXCEPT !.skipped_details = Append(@, IntraFileSkip(idx, acc.seen[key]))]
    ELSE [fact_records |-> Append(acc.fact_records, rec),
          skipped_details |-> acc.skipped_details,
          existing_keys |-> KeysAfterStaging(acc.existing_keys, key),
          seen |-> Put(acc.seen, key, idx + 2)]

KeyOf(rec) == <<rec.employee_id, rec.date_id, rec.shift_id>>
BuildRow(acc, idx, rec) == BuildFact(acc, idx, rec, KeyOf(rec))

RECURSIVE BuildFacts(_, _, _)
BuildFacts(df, maps, acc) ==
    IF df = <<>> THEN acc
    ELSE BuildFacts(Tail(df), maps, BuildRow(acc, Head(df).idx, FactRecord(Head(df).row, maps)))

\* fact_shifts has foreign keys to the five dimension tables (NULL allowed)
FactInsertFails(batch, store) ==
    \E i \in 1..Len(batch) :
        \/ batch[i].employee_id \notin {None} \cup {store.employees[j].employee_id : j \in 1..Len(store.employees)}
        \/ batch[i].shift_id \notin {None} \cup {store.shifts[j].shift_id : j \in 1..Len(store.shifts)}
        \/ batch[i].date_id \notin {None} \cup {store.dates[j].date_id : j \in 1..Len(store.dates)}
        \/ batch[i].client_id \notin {None} \cup {store.clients[j].client_id : j \in 1..Len(store.clients)}
        \/ batch[i].job_id \notin {None} \cup {store.jobs[j].job_id : j \in 1..Len(store.jobs)}

\* the batch loop: each batch is inserted and committed; the first failing
\* batch raises and leaves the earlier ones committed
BatchLen(records) == IF Len(records) < batch_size THEN Len(records) ELSE batch_size
RECURSIVE InsertBatches(_, _, _, _)
InsertBatches(records, facts, total_inserted, store) ==
    IF records = <<>> THEN [ok |-> TRUE, facts |-> facts, total_inserted |-> total_inserted]
    ELSE IF FactInsertFails(SubSeq(records, 1, BatchLen(records)), store)
         THEN [ok |-> FALSE, facts |-> facts, total_inserted |-> total_inserted]
         ELSE InsertBatches(SubSeq(records, BatchLen(records) + 1, Len(records)),
                            facts \o SubSeq(records, 1, BatchLen(records)),
                            total_inserted + BatchLen(records), store)

NothingBuilt(existing_keys) ==
    [fact_records |-> <<>>, skipped_details |-> <<>>, existing_keys |-> existing_keys,
     seen |-> EmptyMap]
\* a faulty variant of FactsWritten that returns no skip records
FactsWrittenUnskipped(written, skipped) ==
    [ok |-> written.ok, facts |-> written.facts, total_inserted |-> written.total_inserted,
     skipped_details |-> <<>>]
FactsWritten(written, skipped) ==
    [ok |-> written.ok, facts |-> written.facts, total_inserted |-> written.total_inserted,
     skipped_details |-> skipped]
FactsBuilt(built, store) ==
    FactsWritten(InsertBatches(built.fact_records, store.facts, 0, store), built.skipped_details)

\* a faulty variant of BulkCreateFacts that replaces the facts of the file's
\* dates instead of skipping their duplicates
BulkReplaceFacts(df, maps, store) ==
    FactsBuilt(BuildFacts(df, maps, NothingBuilt({})),
               [store EXCEPT !.facts = SelectSeq(store.facts,
                                          LAMBDA f : f.date_id \notin FileDateIds(df))])

\* _bulk_create_facts: [ok, facts, total_inserted, skipped_details]
BulkCreateFacts(df, maps, store) ==
    FactsBuilt(BuildFacts(df, maps, NothingBuilt(ExistingKeys(store.facts, df))), store)

\* _filter_unwanted_data: rows whose location or client is excluded are
\* dropped; the remaining rows keep their index labels
Blank(v) == IF IsNa(v) THEN <<>> ELSE v
Excluded(present, value, excluded) ==
    present /\ excluded # {} /\ Upper(Blank(value)) \in {Upper(x) : x \in excluded}
FilterUnwantedData(df, columns, excluded_locs, excluded_clients) ==
    SelectSeq(df, LAMBDA e :
        /\ ~Excluded("location" \in columns, e.row.location, excluded_locs)
        /\ ~Excluded("client" \in columns, e.row.client, excluded_clients))

\* ------------------------------------------------------------- Reconciler
Tolerance == MoneyScale

SubtractedSkip(item) ==
    \/ item.reason = "Missing Keys"
    \/ item.reason = "Duplicate" /\ item.duplicate_type = "intra_file"

\* the value subtracted for one skip record: df.iloc[row - 2] is positional
SkipValue(item, row_idx, df) ==
    IF SubtractedSkip(item) /\ 0 <= row_idx /\ row_idx < Len(df)
    THEN ToNumeric(df[row_idx + 1].row.client_net) ELSE 0
RECURSIVE SkippedRevenue(_, _)
SkippedRevenue(skipped, df) ==
    IF skipped = <<>> THEN 0
    ELSE SkipValue(Head(skipped), Head(skipped).row - 2, df) + SkippedRevenue(Tail(skipped), df)

DbRevenue(facts, lo, hi) ==
    SumSeq([i \in 1..Len(facts) |->
              IF facts[i].date_id >= lo /\ facts[i].date_id <= hi THEN facts[i].client_net ELSE 0])
RawRevenue(df) == SumSeq([i \in 1..Len(df) |-> ToNumeric(df[i].row.client_net)])

Verification(adjusted_excel_revenue, db_revenue) ==
    [excel_revenue |-> adjusted_excel_revenue, db_revenue |-> db_revenue,
     match |-> Abs(db_revenue - adjusted_excel_revenue) < Tolerance, error |-> FALSE]
VerifyRange(df, skipped, facts, date_ids) ==
    IF date_ids = {}
    THEN [excel_revenue |-> 0, db_revenue |-> 0, match |-> FALSE, error |-> TRUE]
    ELSE Verification(RawRevenue(df) - SkippedRevenue(skipped, df),
                      DbRevenue(facts, Min(date_ids), Max(date_ids)))

\* _verify_totals
VerifyTotals(df, skipped, facts) == VerifyRange(df, skipped, facts, FileDateIds(df))

\* ------------------------------------------------------------------ inputs
required_columns ==
    <<"job_name", "shift_name", "full_name", "location", "site", "role", "month", "date",
      "day", "shift_start", "shift_end", "duration", "paid_hours", "hour_rate", "deductions",
      "additions", "total_pay", "client_hourly_rate", "client_net", "self_employed", "dns",
      "client", "job_status">>
AllColumns == Range(required_columns)

T0900 == <<"@time", "0", "9", "0", "0", "0", "0">>
T1700 == <<"@time", "1", "7", "0", "0", "0", "0">>
Mar01 == <<"@ts", "2", "0", "2", "4", "0", "3", "0", "1">>

\* Row A: a plain row, every cell typed as a spreadsheet reader delivers it.
RowA ==
    [full_name |-> <<"A", "l">>, role |-> <<"x">>, client |-> <<"C", "1">>,
     job_name |-> <<"J">>, location |-> <<"N">>, site |-> NaN,
     shift_name |-> <<"M">>, shift_start |-> T0900, shift_end |-> T1700,
     date |-> Mar01, client_net |-> Num(8), client_hourly_rate |-> Num(2),
     paid_hours |-> Num(4)]
\* Row B: the same employee, date and shift as row A in other spellings, with
\* another role, client and job location and a formula as client_net.
RowB ==
    [RowA EXCEPT !.full_name = <<" ", "A", "l">>, !.role = <<"y">>, !.client = <<"C", "2">>,
                 !.location = <<"S">>, !.shift_start = <<"9", ":", "0", "0">>,
                 !.date = <<"2", "0", "2", "4", "-", "0", "3", "-", "0", "1">>,
                 !.client_net = Formula, !.client_hourly_rate = Num(1), !.paid_hours = Num(3)]
\* Row C: no employee name, an unparseable date, client "C1" with a trailing blank.
RowC ==
    [RowA EXCEPT !.full_name = NaN, !.client = <<"C", "1", " ">>,
                 !.date = <<"n", "/", "a">>, !.client_net = Num(1)]
\* Row D: the employee of row A (with a trailing blank) on the next day.
RowD ==
    [RowA EXCEPT !.full_name = <<"A", "l", " ">>,
                 !.date = <<"2", "0", "2", "4", ".", "0", "3", ".", "0", "2">>,
                 !.client_net = Num(5)]
\* Row E: row A with a blank full_name cell.
RowE == [RowA EXCEPT !.full_name = NaN]
\* Row F: row C with a missing date cell.
RowF == [RowC EXCEPT !.date = NaN]
\* Row G: row D with the job name 'J|N' and no location.
RowG == [RowD EXCEPT !.job_name = <<"J", "|", "N">>, !.location = NaN]
RowSet == {RowA, RowB, RowC, RowD}

RECURSIVE SeqsUpTo(_, _)
SeqsUpTo(S, n) ==
    IF n = 0 THEN {<<>>}
    ELSE SeqsUpTo(S, n - 1) \cup {Append(q, x) : q \in {p \in SeqsUpTo(S, n - 1) : Len(p) = n - 1}, x \in S}

Sheet(rows) == [readable |-> TRUE, columns |-> AllColumns, rows |-> rows]
NoFile == [readable |-> FALSE, columns |-> {}, rows |-> <<>>]
\* the workbooks offered for upload: complete ones with up to MaxRows rows, one
\* that lacks required columns, one that is no workbook at all, and the
\* three-row workbook of the duplicate-and-blank-name scenario
FileSet ==
    {Sheet(rows) : rows \in SeqsUpTo(RowSet, MaxRows)}
    \cup {[Sheet(<<RowA>>) EXCEPT !.columns = AllColumns \ {"client_net", "date"}]}
    \cup {[Sheet(<<RowB>>) EXCEPT !.columns = AllColumns \ {"location"}]}
    \cup {[Sheet(<<>>) EXCEPT !.readable = FALSE]}
    \cup {Sheet(<<RowA, RowB, RowE>>), Sheet(<<RowC, RowF>>), Sheet(<<RowA, RowG>>)}
\* the exclusion lists a loader is constructed with
ExcludedLocationSets == {{}, {<<"s">>}}
Uploads ==
    {[file |-> f, excluded_locations |-> {}] : f \in FileSet}
    \cup {[file |-> f, excluded_locations |-> x] :
            f \in {g \in FileSet : Len(g.rows) = MaxRows /\ g.rows[1] = RowB},
            x \in ExcludedLocationSets}
    \cup {[file |-> Sheet(<<RowB, RowA, RowA>>), excluded_locations |-> {<<"s">>}]}

\* ------------------------------------------------------------------- state
VARIABLES
    dim_employees, dim_clients, dim_jobs, dim_shifts, dim_dates, fact_shifts,
    fact_src,            \* history: the source row each fact was built from
    pc,                  \* where the generator load_excel_data is suspended
    file, excluded_locations,
    df, maps, facts_created, skipped_details,
    events,              \* the events yielded so far by this load
    loads,               \* loads started so far
    pre,                 \* history: the store when this load was called
    reupload,            \* history: this load repeats the completed previous one
    other,               \* a second load that runs concurrently (SpecConcurrent)
    cleaning,            \* a cell under one of the cleaners (SpecCleaner)
    auth                 \* the users, one client's session and what it has learnt (SpecAuth)

store_vars == <<dim_employees, dim_clients, dim_jobs, dim_shifts, dim_dates, fact_shifts, fact_src>>
local_vars == <<file, excluded_locations, df, maps, facts_created, skipped_details>>
vars == <<store_vars, pc, local_vars, events, loads, pre, reupload, other, cleaning, auth>>

Store ==
    [employees |-> dim_employees, clients |-> dim_clients, jobs |-> dim_jobs,
     shifts |-> dim_shifts, dates |-> dim_dates, facts |-> fact_shifts]
NoMaps ==
    [employees |-> EmptyMap, clients |-> EmptyMap, jobs |-> EmptyMap, shifts |-> EmptyMap,
     dates |-> EmptyMap]

NoOther == [pc |-> "none", df |-> <<>>, maps |-> NoMaps, fact_records |-> <<>>, src |-> <<>>]
NoCleaning == [fn |-> "none", value |-> <<>>, out |-> <<>>, again |-> <<>>]
NoAuth ==
    [users |-> <<>>, pending_user_id |-> None, user_id |-> None, known |-> {}, leaked |-> {},
     verified |-> {}]

Init ==
    /\ dim_employees = <<>> /\ dim_clients = <<>> /\ dim_jobs = <<>>
    /\ dim_shifts = <<>> /\ dim_dates = <<>> /\ fact_shifts = <<>> /\ fact_src = <<>>
    /\ pc = "idle"
    /\ file = NoFile /\ excluded_locations = {}
    /\ df = <<>> /\ maps = NoMaps /\ facts_created = 0 /\ skipped_details = <<>>
    /\ events = <<>> /\ loads = 0
    /\ pre = Store /\ reupload = FALSE
    /\ other = NoOther
    /\ cleaning = NoCleaning
    /\ auth = NoAuth

\* ------------------------------------------------------------------ events
Progress(n) == [status |-> "progress", progress |-> n]
MissingColumnsError(cols) == [status |-> "error", message |-> "Missing columns", missing_columns |-> cols]
CriticalError == [status |-> "error", message |-> "Critical error", missing_columns |-> <<>>]
\* a faulty variant of Complete that leaves the verification out
CompleteUnverified(inserted, skipped, verification) ==
    [status |-> "complete", message |-> "Upload complete",
     data |-> [inserted |-> inserted, skipped_details |-> skipped]]

Complete(inserted, skipped, verification) ==
    [status |-> "complete", message |-> "Upload complete",
     data |-> [inserted |-> inserted, skipped_details |-> skipped, verification |-> verification]]

Yield(e, at) == events' = Append(events, e) /\ pc' = at
\* the except clause of load_excel_data: rollback, then the error event
Raise == Yield(CriticalError, "done")

\* pd.read_excel: row i of the sheet gets index label i - 1
ReadExcel(f) == [i \in 1..Len(f.rows) |-> [idx |-> i - 1, row |-> f.rows[i]]]
MissingColumns(columns) == SelectSeq(required_columns, LAMBDA col : col \notin columns)

\* --------------------------------------------------------------- the caller
\* load_excel_data(file_path) is called: a generator object is returned and
\* no statement of the body has run yet
Call(u) ==
    /\ pc = "idle" /\ loads < MaxLoads
    /\ pc' = "created"
    /\ file' = u.file /\ excluded_locations' = u.excluded_locations
    /\ df' = <<>> /\ maps' = NoMaps /\ facts_created' = 0 /\ skipped_details' = <<>>
    /\ events' = <<>> /\ loads' = loads + 1
    /\ pre' = Store /\ reupload' = FALSE
    /\ UNCHANGED <<store_vars, other, cleaning, auth>>

\* the same workbook is uploaded again right after its load completed
Reupload ==
    /\ pc = "done" /\ events # <<>> /\ events[Len(events)].status = "complete"
    /\ loads < MaxLoads
    /\ pc' = "created"
    /\ df' = <<>> /\ maps' = NoMaps /\ facts_created' = 0 /\ skipped_details' = <<>>
    /\ events' = <<>> /\ loads' = loads + 1
    /\ pre' = Store /\ reupload' = TRUE
    /\ UNCHANGED <<store_vars, file, excluded_locations, other, cleaning, auth>>

Suspended ==
    {"created", "y0", "y5", "y10", "y12", "y14", "y15", "y20", "y25", "y30", "y35", "y40",
     "y45", "y50", "y90", "y95"}

\* the caller stops iterating (the client of the streamed response goes away,
\* or the generator object is dropped unread): the generator is closed at the
\* yield it is suspended on, GeneratorExit is no Exception, nothing more runs
Abandon ==
    /\ pc \in Suspended
    /\ pc' = "closed"
    /\ UNCHANGED <<store_vars, local_vars, events, loads, pre, reupload, other, cleaning, auth>>

\* the request is over: the uploaded file is removed, the loader is dropped
Cleanup ==
    /\ pc \in {"done", "closed"}
    /\ pc' = "idle"
    /\ file' = NoFile /\ excluded_locations' = {}
    /\ df' = <<>> /\ maps' = NoMaps /\ facts_created' = 0 /\ skipped_details' = <<>>
    /\ events' = <<>> /\ pre' = Store /\ reupload' = FALSE
    /\ UNCHANGED <<store_vars, loads, other, cleaning, auth>>

\* ------------------------------------------- load_excel_data, yield by yield
Begin ==
    /\ pc = "created"
    /\ Yield(Progress(0), "y0")
    /\ UNCHANGED <<store_vars, local_vars, loads, pre, reupload, other, cleaning, auth>>

Reading ==
    /\ pc = "y0"
    /\ Yield(Progress(5), "y5")
    /\ UNCHANGED <<store_vars, local_vars, loads, pre, reupload, other, cleaning, auth>>

Read ==
    /\ pc = "y5"
    /\ IF file.readable
       THEN df' = ReadExcel(file) /\ Yield(Progress(10), "y10")
       ELSE df' = df /\ Raise
    /\ UNCHANGED <<store_vars, file, excluded_locations, maps, facts_created, skipped_details,
                   loads, pre, reupload, other, cleaning, auth>>

Filtering ==
    /\ pc = "y10"
    /\ Yield(Progress(12), "y12")
    /\ UNCHANGED <<store_vars, local_vars, loads, pre, reupload, other, cleaning, auth>>

\* a faulty variant of Validate that lets every workbook through
ValidateNothing == Yield(Progress(15), "y15")

\* the validation of the required columns, reached after the filter
Validate ==
    IF MissingColumns(file.columns) # <<>>
    THEN Yield(MissingColumnsError(MissingColumns(file.columns)), "done")
    ELSE Yield(Progress(15), "y15")

Filter ==
    /\ pc = "y12"
    /\ df' = FilterUnwantedData(df, file.columns, excluded_locations, {})
    /\ IF Len(df) - Len(df') > 0 THEN Yield(Progress(14), "y14") ELSE Validate
    /\ UNCHANGED <<store_vars, file, excluded_locations, maps, facts_created, skipped_details,
                   loads, pre, reupload, other, cleaning, auth>>

Filtered ==
    /\ pc = "y14"
    /\ Validate
    /\ UNCHANGED <<store_vars, local_vars, loads, pre, reupload, other, cleaning, auth>>

Processing ==
    /\ pc = "y15"
    /\ Yield(Progress(20), "y20")
    /\ UNCHANGED <<store_vars, local_vars, loads, pre, reupload, other, cleaning, auth>>

\* a resolver returned (the progress event n is yielded, the generator is
\* suspended at `at`) or raised (the except clause runs)
Resolved(r, field, n, at) ==
    IF r.ok THEN maps' = [maps EXCEPT ![field] = r.map] /\ Yield(Progress(n), at)
    ELSE maps' = maps /\ Raise

Employees ==
    /\ pc = "y20"
    /\ dim_employees' = BulkCreateEmployees(dim_employees, df).table
    /\ Resolved(BulkCreateEmployees(dim_employees, df), "employees", 25, "y25")
    /\ UNCHANGED <<dim_clients, dim_jobs, dim_shifts, dim_dates, fact_shifts, fact_src, file,
                   excluded_locations, df, facts_created, skipped_details, loads, pre, reupload, other, cleaning, auth>>

Clients ==
    /\ pc = "y25"
    /\ dim_clients' = BulkCreateClients(dim_clients, df).table
    /\ Resolved(BulkCreateClients(dim_clients, df), "clients", 30, "y30")
    /\ UNCHANGED <<dim_employees, dim_jobs, dim_shifts, dim_dates, fact_shifts, fact_src, file,
                   excluded_locations, df, facts_created, skipped_details, loads, pre, reupload, other, cleaning, auth>>

Jobs ==
    /\ pc = "y30"
    /\ dim_jobs' = BulkCreateJobs(dim_jobs, df).table
    /\ Resolved(BulkCreateJobs(dim_jobs, df), "jobs", 35, "y35")
    /\ UNCHANGED <<dim_employees, dim_clients, dim_shifts, dim_dates, fact_shifts, fact_src, file,
                   excluded_locations, df, facts_created, skipped_details, loads, pre, reupload, other, cleaning, auth>>

Shifts ==
    /\ pc = "y35"
    /\ dim_shifts' = BulkCreateShifts(dim_shifts, df).table
    /\ Resolved(BulkCreateShifts(dim_shifts, df), "shifts", 40, "y40")
    /\ UNCHANGED <<dim_employees, dim_clients, dim_jobs, dim_dates, fact_shifts, fact_src, file,
                   excluded_locations, df, facts_created, skipped_details, loads, pre, reupload, other, cleaning, auth>>

Dates ==
    /\ pc = "y40"
    /\ dim_dates' = BulkCreateDates(dim_dates, df).table
    /\ Resolved(BulkCreateDates(dim_dates, df), "dates", 45, "y45")
    /\ UNCHANGED <<dim_employees, dim_clients, dim_jobs, dim_shifts, fact_shifts, fact_src, file,
                   excluded_locations, df, facts_created, skipped_details, loads, pre, reupload, other, cleaning, auth>>

CreatingFacts ==
    /\ pc = "y45"
    /\ Yield(Progress(50), "y50")
    /\ UNCHANGED <<store_vars, local_vars, loads, pre, reupload, other, cleaning, auth>>

\* the source rows of the facts a load stages, in staging order
StagedRows(d, skipped) ==
    LET skippedRows == {skipped[i].row : i \in 1..Len(skipped)}
        kept == SelectSeq(d, LAMBDA e : e.idx + 2 \notin skippedRows)
    IN  [i \in 1..Len(kept) |-> kept[i].row]

FactsCreated(r) ==
    /\ fact_shifts' = r.facts
    /\ fact_src' = fact_src \o SubSeq(StagedRows(df, r.skipped_details), 1,
                                     Len(r.facts) - Len(fact_shifts))
    /\ IF r.ok
       THEN /\ facts_created' = r.total_inserted
            /\ skipped_details' = r.skipped_details
            /\ Yield(Progress(90), "y90")
       ELSE /\ UNCHANGED <<facts_created, skipped_details, cleaning, auth>>
            /\ Raise

Facts ==
    /\ pc = "y50"
    /\ FactsCreated(BulkCreateFacts(df, maps, Store))
    /\ UNCHANGED <<dim_employees, dim_clients, dim_jobs, dim_shifts, dim_dates, file,
                   excluded_locations, df, maps, loads, pre, reupload, other, cleaning, auth>>

\* the bulk insert of batch k raises (the database refuses it or is gone):
\* the batches before it are committed, the exception leaves
\* _bulk_create_facts and load_excel_data's except clause rolls back and
\* yields the error event
FailedAt(built, k) ==
    /\ (k - 1) * batch_size < Len(built.fact_records)
    /\ fact_shifts' = fact_shifts \o SubSeq(built.fact_records, 1, (k - 1) * batch_size)
    /\ fact_src' = fact_src \o SubSeq(StagedRows(df, built.skipped_details), 1,
                                     (k - 1) * batch_size)
    /\ Raise

FactsFail ==
    /\ pc = "y50"
    /\ \E k \in 1..Len(df) :
          FailedAt(BuildFacts(df, maps, NothingBuilt(ExistingKeys(fact_shifts, df))), k)
    /\ UNCHANGED <<dim_employees, dim_clients, dim_jobs, dim_shifts, dim_dates, file,
                   excluded_locations, df, maps, facts_created, skipped_details, loads, pre,
                   reupload, other, cleaning, auth>>

LoadComplete ==
    /\ pc = "y90"
    /\ Yield(Progress(95), "y95")
    /\ UNCHANGED <<store_vars, local_vars, loads, pre, reupload, other, cleaning, auth>>

\* a faulty variant of Verify that aborts the load on a mismatch
VerifyOrAbort ==
    /\ pc = "y95"
    /\ IF VerifyTotals(df, skipped_details, fact_shifts).match
       THEN Yield(Complete(facts_created, skipped_details,
                           VerifyTotals(df, skipped_details, fact_shifts)), "done")
       ELSE Raise
    /\ UNCHANGED <<store_vars, local_vars, loads, pre, reupload, other, cleaning, auth>>

Verify ==
    /\ pc = "y95"
    /\ Yield(Complete(facts_created, skipped_details,
                      VerifyTotals(df, skipped_details, fact_shifts)), "done")
    /\ UNCHANGED <<store_vars, local_vars, loads, pre, reupload, other, cleaning, auth>>

Step ==
    \/ Begin \/ Reading \/ Read \/ Filtering \/ Filter \/ Filtered \/ Processing
    \/ Employees \/ Clients \/ Jobs \/ Shifts \/ Dates \/ CreatingFacts \/ Facts
    \/ LoadComplete \/ Verify

Next ==
    \/ \E u \in Uploads : Call(u)
    \/ Reupload
    \/ Step
    \/ Abandon
    \/ Cleanup

Spec == Init /\ [][Next]_vars

\* ------------------------------------------------------ a concurrent load
\* A second request runs load_excel_data on a workbook of its own against the
\* same store while the first is under way.  Its steps are taken at the
\* grain of its database transactions: the five resolvers (each queries, then
\* inserts and commits), the snapshot of existing keys with the row loop, and
\* the bulk insert of the staged facts.
OtherFiles == {Sheet(<<r>>) : r \in RowSet}

OtherResolved(d, re, rc, rj, rs, rd) ==
    /\ re.ok /\ rc.ok /\ rj.ok /\ rs.ok /\ rd.ok
    /\ dim_employees' = re.table /\ dim_clients' = rc.table /\ dim_jobs' = rj.table
    /\ dim_shifts' = rs.table /\ dim_dates' = rd.table
    /\ other' = [pc |-> "resolved", df |-> d,
                 maps |-> [employees |-> re.map, clients |-> rc.map, jobs |-> rj.map,
                           shifts |-> rs.map, dates |-> rd.map],
                 fact_records |-> <<>>, src |-> <<>>]

OtherResolve(f) ==
    /\ other.pc = "none"
    /\ OtherResolved(ReadExcel(f),
                     BulkCreateEmployees(dim_employees, ReadExcel(f)),
                     BulkCreateClients(dim_clients, ReadExcel(f)),
                     BulkCreateJobs(dim_jobs, ReadExcel(f)),
                     BulkCreateShifts(dim_shifts, ReadExcel(f)),
                     BulkCreateDates(dim_dates, ReadExcel(f)))
    /\ UNCHANGED <<fact_shifts, fact_src, pc, local_vars, events, loads, pre, reupload, cleaning, auth>>

OtherBuilt(built) ==
    other' = [other EXCEPT !.pc = "built", !.fact_records = built.fact_records,
                           !.src = StagedRows(other.df, built.skipped_details)]

\* lines 347-475: the snapshot of existing keys and the row loop
OtherBuild ==
    /\ other.pc = "resolved"
    /\ OtherBuilt(BuildFacts(other.df, other.maps,
                             NothingBuilt(ExistingKeys(fact_shifts, other.df))))
    /\ UNCHANGED <<store_vars, pc, local_vars, events, loads, pre, reupload, cleaning, auth>>

\* lines 482-490: the staged facts are inserted and committed
OtherInsert ==
    /\ other.pc = "built"
    /\ fact_shifts' = fact_shifts \o other.fact_records
    /\ fact_src' = fact_src \o other.src
    /\ other' = [other EXCEPT !.pc = "done"]
    /\ UNCHANGED <<dim_employees, dim_clients, dim_jobs, dim_shifts, dim_dates, pc,
                   local_vars, events, loads, pre, reupload, cleaning, auth>>

ConcurrentUploads ==
    {[file |-> f, excluded_locations |-> {}] : f \in OtherFiles}
    \cup {[file |-> Sheet(<<RowB, RowA>>), excluded_locations |-> {<<"s">>}]}
NextConcurrent ==
    \/ \E u \in ConcurrentUploads : Call(u)
    \/ Step
    \/ Cleanup
    \/ \E f \in OtherFiles : OtherResolve(f)
    \/ OtherBuild
    \/ OtherInsert
SpecConcurrent == Init /\ [][NextConcurrent]_vars

\* loads during which the database may fail a bulk insert of facts
NextFault == Next \/ FactsFail
SpecFault == Init /\ [][NextFault]_vars

\* ------------------------------------------- the fact builder on its own
\* _bulk_create_facts and _verify_totals as functions of their arguments.  The
\* frame is any frame the read and the filter deliver; the mappings are those
\* the resolvers return for it on an empty store, less the entries of one row
\* in a chosen set of dimensions; the store holds the dimension rows and,
\* when the frame was loaded before, the facts of that load.
BuilderUploads ==
    {[file |-> Sheet(rows), excluded_locations |-> x] :
        rows \in SeqsUpTo(RowSet \cup {RowE}, MaxRows), x \in ExcludedLocationSets}
Dimensions == {"employees", "clients", "jobs", "shifts", "dates"}
Without(map, key) == [k \in DOMAIN map \ {key} |-> map[k]]
Less(map, key, lost) == IF lost THEN Without(map, key) ELSE map
MapsLess(m, row, lost) ==
    [employees |-> Less(m.employees, EmployeeKey(row), "employees" \in lost),
     clients |-> Less(m.clients, CleanString(row.client, UnknownClient), "clients" \in lost),
     jobs |-> Less(m.jobs, JobKey(row), "jobs" \in lost),
     shifts |-> Less(m.shifts, ShiftKey(row), "shifts" \in lost),
     dates |-> Less(m.dates, CleanDateWithId(row.date)[1], "dates" \in lost)]
MapsOf(re, rc, rj, rs, rd) ==
    [employees |-> re.map, clients |-> rc.map, jobs |-> rj.map, shifts |-> rs.map,
     dates |-> rd.map]
StoreOf(re, rc, rj, rs, rd) ==
    [employees |-> re.table, clients |-> rc.table, jobs |-> rj.table, shifts |-> rs.table,
     dates |-> rd.table, facts |-> <<>>]
EmptyStore ==
    [employees |-> <<>>, clients |-> <<>>, jobs |-> <<>>, shifts |-> <<>>, dates |-> <<>>,
     facts |-> <<>>]
\* the events load_excel_data has yielded when it calls the fact builder
EventsBeforeFacts(dropped) ==
    <<Progress(0), Progress(5), Progress(10), Progress(12)>>
    \o (IF dropped > 0 THEN <<Progress(14)>> ELSE <<>>)
    \o <<Progress(15), Progress(20), Progress(25), Progress(30), Progress(35), Progress(40),
         Progress(45), Progress(50)>>

BuilderState(u, d, m, st, before, r, lost, prior) ==
    /\ dim_employees = st.employees /\ dim_clients = st.clients /\ dim_jobs = st.jobs
    /\ dim_shifts = st.shifts /\ dim_dates = st.dates
    /\ fact_shifts = (IF prior THEN before.facts ELSE <<>>)
    /\ fact_src = (IF prior THEN StagedRows(d, before.skipped_details) ELSE <<>>)
    /\ pc = "y50"
    /\ file = u.file /\ excluded_locations = u.excluded_locations
    /\ df = d
    /\ maps = (IF r <= Len(d) THEN MapsLess(m, d[r].row, lost) ELSE m)
    /\ facts_created = 0 /\ skipped_details = <<>>
    /\ events = EventsBeforeFacts(Len(u.file.rows) - Len(d))
    /\ loads = (IF prior THEN 2 ELSE 1)
    /\ pre = (IF prior THEN [st EXCEPT !.facts = before.facts] ELSE EmptyStore)
    /\ reupload = prior
    /\ other = NoOther
    /\ cleaning = NoCleaning
    /\ auth = NoAuth

BuilderResolved(u, d, re, rc, rj, rs, rd, r, lost, prior) ==
    /\ re.ok /\ rc.ok /\ rj.ok /\ rs.ok /\ rd.ok
    /\ BuilderState(u, d, MapsOf(re, rc, rj, rs, rd), StoreOf(re, rc, rj, rs, rd),
                    BulkCreateFacts(d, MapsOf(re, rc, rj, rs, rd), StoreOf(re, rc, rj, rs, rd)),
                    r, lost, prior)
BuilderFrame(u, d, r, lost, prior) ==
    BuilderResolved(u, d, BulkCreateEmployees(<<>>, d), BulkCreateClients(<<>>, d),
                    BulkCreateJobs(<<>>, d), BulkCreateShifts(<<>>, d), BulkCreateDates(<<>>, d),
                    r, lost, prior)

InitBuilder ==
    \E u \in BuilderUploads, r \in 1..MaxRows, lost \in SUBSET Dimensions, prior \in BOOLEAN :
        BuilderFrame(u, FilterUnwantedData(ReadExcel(u.file), u.file.columns,
                                           u.excluded_locations, {}),
                     r, lost, prior)
NextBuilder == Facts \/ LoadComplete \/ Verify
SpecBuilder == InitBuilder /\ [][NextBuilder]_vars

\* ------------------------------------------ a race in the Date resolver
\* The second load resolves its dimensions while the first is inside
\* _bulk_create_dates, after the query of the existing dates (lines 290-292)
\* and the staging loop and before the bulk insert (line 323): the first
\* load's staging st was computed on the table as it was, its insert and
\* re-query run on the table the second load has committed to.
DatesRacedBy(d, st, re, rc, rj, rs, rd) ==
    /\ re.ok /\ rc.ok /\ rj.ok /\ rs.ok /\ rd.ok
    /\ dim_employees' = re.table /\ dim_clients' = rc.table /\ dim_jobs' = rj.table
    /\ dim_shifts' = rs.table
    /\ dim_dates' = DatesStaged(rd.table, st).table
    /\ other' = [pc |-> "resolved", df |-> d, maps |-> MapsOf(re, rc, rj, rs, rd),
                 fact_records |-> <<>>, src |-> <<>>]
    /\ Resolved(DatesStaged(rd.table, st), "dates", 45, "y45")

DatesRaced(f) ==
    /\ pc = "y40" /\ other.pc = "none"
    /\ DatesRacedBy(ReadExcel(f), StageDates(UniqueDates(df), dim_dates, NoneStaged),
                    BulkCreateEmployees(dim_employees, ReadExcel(f)),
                    BulkCreateClients(dim_clients, ReadExcel(f)),
                    BulkCreateJobs(dim_jobs, ReadExcel(f)),
                    BulkCreateShifts(dim_shifts, ReadExcel(f)),
                    BulkCreateDates(dim_dates, ReadExcel(f)))
    /\ UNCHANGED <<fact_shifts, fact_src, file, excluded_locations, df, facts_created,
                   skipped_details, loads, pre, reupload, cleaning, auth>>

RaceUploads ==
    ConcurrentUploads \cup {[file |-> Sheet(<<RowA, RowD>>), excluded_locations |-> {}]}
NextRace ==
    \/ \E u \in RaceUploads : Call(u)
    \/ Step
    \/ Cleanup
    \/ \E f \in OtherFiles : OtherResolve(f)
    \/ OtherBuild
    \/ OtherInsert
    \/ \E f \in OtherFiles : DatesRaced(f)
SpecRace == Init /\ [][NextRace]_vars

\* -------------------------------------------------- manual record requests
\* POST /api/records (create_record) and PUT /api/records/<id>
\* (update_record), served between two loads.  The ids of the request are
\* those of stored rows (any other id fails a foreign key and changes
\* nothing); the user is no admin, so both rates are 0.
MaxManual == 2
ManualDates ==
    {<<"2", "0", "2", "4", "-", "0", "3", "-", "0", "1">>,
     <<"2", "0", "2", "4", "-", "0", "3", "-", "0", "2">>}
Ids(table, field) == {table[i][field] : i \in 1..Len(table)}
\* the fact rows inserted by create_record (their history entry is this marker)
Manual == [manual |-> TRUE]
ManualFacts == {n \in 1..Len(fact_src) : fact_src[n] = Manual}
\* DimDate(date, day, month, year) is inserted without a date_id: the primary
\* key is drawn from the table's sequence, which the loader's inserts with an
\* explicit date_id never advance
SerialDates(table) == {i \in 1..Len(table) : table[i].date_id <= MaxManual}
NextDateId(table) == Cardinality(SerialDates(table)) + 1
ManualDate(table, date_str) ==
    [date_id |-> NextDateId(table), date |-> date_str,
     year |-> ToInt(SubSeq(date_str, 1, 4))]
\* the date dimension after date_obj has been looked up or created
DatesWith(table, date_str) ==
    IF ExistingDate(table, date_str) = None
    THEN Append(table, ManualDate(table, date_str)) ELSE table

NewRecord(date_id, employee_id, client_id, job_id, shift_id, paid_hours) ==
    [employee_id |-> employee_id, client_id |-> client_id, job_id |-> job_id,
     shift_id |-> shift_id, date_id |-> date_id, paid_hours |-> paid_hours,
     client_hourly_rate |-> 0, client_net |-> 0 * paid_hours]

CreateRecord ==
    /\ pc = "idle"
    /\ Cardinality(ManualFacts) < MaxManual
    /\ \E date_str \in ManualDates, employee_id \in Ids(dim_employees, "employee_id"),
          client_id \in Ids(dim_clients, "client_id"), job_id \in Ids(dim_jobs, "job_id"),
          shift_id \in Ids(dim_shifts, "shift_id") :
          /\ dim_dates' = DatesWith(dim_dates, date_str)
          /\ fact_shifts' = Append(fact_shifts,
                                   NewRecord(ExistingDate(dim_dates', date_str), employee_id,
                                             client_id, job_id, shift_id, MoneyScale))
          /\ fact_src' = Append(fact_src, Manual)
    /\ UNCHANGED <<dim_employees, dim_clients, dim_jobs, dim_shifts, pc, local_vars, events,
                   loads, pre, reupload, other, cleaning, auth>>

\* update_record with a date in the request: the record moves to that date
UpdateRecord ==
    /\ pc = "idle"
    /\ \E id \in 1..Len(fact_shifts), date_str \in ManualDates :
          /\ dim_dates' = DatesWith(dim_dates, date_str)
          /\ fact_shifts' = [fact_shifts EXCEPT
                                ![id].date_id = ExistingDate(dim_dates', date_str)]
    /\ UNCHANGED <<dim_employees, dim_clients, dim_jobs, dim_shifts, fact_src, pc, local_vars,
                   events, loads, pre, reupload, other, cleaning, auth>>

NextManual ==
    \/ \E u \in ConcurrentUploads : Call(u)
    \/ Step
    \/ Cleanup
    \/ CreateRecord
    \/ UpdateRecord
SpecManual == Init /\ [][NextManual]_vars

\* ------------------------------------------------- the cleaners on their own
\* _clean_date_with_id and _clean_time as functions of one cell.  The date
\* cells are texts of three numbers (year of four digits first or last, the
\* separators '-', '/' and '.', months and days with and without a leading
\* zero, in and out of range), Timestamp cells, formulas, padded texts, texts
\* that are no date, and the missing cell; the time cells are time objects,
\* texts with and without ':', numbers and the missing cell.
Years == {<<"2", "0", "2", "4">>, <<"2", "0", "2", "3">>}
Months == {<<"0", "2">>, <<"2">>, <<"1", "2">>, <<"1", "3">>}
Days == {<<"2", "9">>, <<"3", "0">>, <<"1">>, <<"3", "1">>}
Separators == {"-", "/", "."}
YearFirstTexts ==
    {y \o <<sep>> \o m \o <<sep>> \o d : y \in Years, m \in Months, d \in Days, sep \in Separators}
YearLastTexts ==
    {a \o <<sep>> \o b \o <<sep>> \o y : y \in Years, a \in Days, b \in Months, sep \in Separators}
OtherDateCells ==
    {NaN, <<>>, <<"n", "/", "a">>, Mar01,
     <<"@ts", "2", "0", "2", "4", "0", "2", "2", "9">>,
     <<"=", "2", "0", "2", "4", "-", "0", "3", "-", "0", "1">>, <<"=", "A", "1">>,
     <<" ", "2", "0", "2", "4", "-", "0", "3", "-", "0", "1", " ">>,
     <<"2", "0", "2", "4", "-", "0", "3", "-", "0", "1", " ", "0", "0", ":", "0", "0", ":", "0", "0">>,
     default_date}
DateCells == YearFirstTexts \cup YearLastTexts \cup OtherDateCells
TimeCells ==
    {NaN, T0900, <<>>, <<"a", "b", "c">>, <<"2", "5", ":", "9", "9">>, <<"9", ":", "0", "0">>,
     <<"N", "a", "N">>, <<" ", "7", " ">>, <<"2", "4">>, <<"1", "2", ".", "5">>, <<"-", "1">>,
     <<"9", ":", "5", ":", "7">>, <<"1", "7", ":", "0", "0", ":", "0", "0">>, <<"a", ":", "b">>}

Cleaning(fn, value) == [fn |-> fn, value |-> value, out |-> <<>>, again |-> <<>>]
InitCleaner ==
    /\ dim_employees = <<>> /\ dim_clients = <<>> /\ dim_jobs = <<>>
    /\ dim_shifts = <<>> /\ dim_dates = <<>> /\ fact_shifts = <<>> /\ fact_src = <<>>
    /\ pc = "idle"
    /\ file = NoFile /\ excluded_locations = {}
    /\ df = <<>> /\ maps = NoMaps /\ facts_created = 0 /\ skipped_details = <<>>
    /\ events = <<>> /\ loads = 0
    /\ pre = EmptyStore /\ reupload = FALSE
    /\ other = NoOther
    /\ cleaning \in {Cleaning("date", v) : v \in DateCells}
                    \cup {Cleaning("time", v) : v \in TimeCells}
    /\ auth = NoAuth

\* date_str, date_id = self._clean_date_with_id(date_value)
CleanDate ==
    /\ cleaning.fn = "date" /\ cleaning.out = <<>>
    /\ cleaning' = [cleaning EXCEPT !.out = CleanDateWithId(cleaning.value)]
    /\ UNCHANGED <<store_vars, pc, local_vars, events, loads, pre, reupload, other, auth>>
\* the cleaner applied to the date string it returned
CleanDateAgain ==
    /\ cleaning.fn = "date" /\ cleaning.out # <<>> /\ cleaning.again = <<>>
    /\ cleaning' = [cleaning EXCEPT !.again = CleanDateWithId(cleaning.out[1])]
    /\ UNCHANGED <<store_vars, pc, local_vars, events, loads, pre, reupload, other, auth>>
\* self._clean_time(value)
CleanTimeCell ==
    /\ cleaning.fn = "time" /\ cleaning.out = <<>>
    /\ cleaning' = [cleaning EXCEPT !.out = CleanTime(cleaning.value)]
    /\ UNCHANGED <<store_vars, pc, local_vars, events, loads, pre, reupload, other, auth>>

NextCleaner == CleanDate \/ CleanDateAgain \/ CleanTimeCell
SpecCleaner == InitCleaner /\ [][NextCleaner]_vars

\* ---------------------------------------------------------- authentication
\* The login requests of auth.py, made by one client that knows the
\* passwords of the users and holds no authenticator: it can submit the
\* current code of a user only when a response has shown it that user's
\* otp_secret.  auth is [users, pending_user_id (session), user_id (the user
\* logged in), known (the secrets the client has seen)] with the history
\* fields leaked (secrets returned for a user whose setup was complete) and
\* verified (users logged in through totp.verify).
MaxUsers == 2
UserIds == 1..MaxUsers
\* pyotp.random_base32(): a secret of its own for each user, never None
Secret(u) == u
UserConfigs(u) ==
    {c \in [two_factor_enabled : BOOLEAN, two_factor_setup_complete : BOOLEAN,
            otp_secret : {None, Secret(u)}] :
        c.two_factor_setup_complete => c.otp_secret = Secret(u)}
\* a request token is None (no or a wrong code) or the current code of a
\* secret the client has seen, written as that secret; pyotp.TOTP(otp_secret)
\* .verify(token)
Tokens == {None} \cup {Secret(u) : u \in auth.known}
TotpVerify(otp_secret, token) == token = otp_secret

InitAuth ==
    /\ dim_employees = <<>> /\ dim_clients = <<>> /\ dim_jobs = <<>>
    /\ dim_shifts = <<>> /\ dim_dates = <<>> /\ fact_shifts = <<>> /\ fact_src = <<>>
    /\ pc = "idle"
    /\ file = NoFile /\ excluded_locations = {}
    /\ df = <<>> /\ maps = NoMaps /\ facts_created = 0 /\ skipped_details = <<>>
    /\ events = <<>> /\ loads = 0
    /\ pre = EmptyStore /\ reupload = FALSE
    /\ other = NoOther
    /\ cleaning = NoCleaning
    /\ \E users \in [UserIds -> UNION {UserConfigs(u) : u \in UserIds}] :
          /\ \A u \in UserIds : users[u] \in UserConfigs(u)
          /\ auth = [NoAuth EXCEPT !.users = users]

LoadUnchanged ==
    UNCHANGED <<store_vars, pc, local_vars, events, loads, pre, reupload, other, cleaning>>

\* POST /api/login
LoggedIn(u) ==
    IF ~auth.users[u].two_factor_enabled
    THEN auth' = [auth EXCEPT !.user_id = u]
    ELSE auth' = [auth EXCEPT !.pending_user_id = u]
ApiLogin ==
    /\ \E u \in UserIds, password_ok \in BOOLEAN :
          IF password_ok THEN LoggedIn(u) ELSE auth' = auth
    /\ LoadUnchanged

\* POST /api/2fa/setup
SetupFor(u) ==
    auth' = [auth EXCEPT !.users[u].otp_secret =
                             IF @ = None THEN Secret(u) ELSE @,
                         !.known = @ \cup {u},
                         !.leaked = @ \cup (IF auth.users[u].two_factor_enabled
                                               /\ auth.users[u].two_factor_setup_complete
                                            THEN {u} ELSE {})]
Api2faSetup ==
    /\ IF auth.pending_user_id = None THEN auth' = auth ELSE SetupFor(auth.pending_user_id)
    /\ LoadUnchanged

\* POST /api/2fa/verify-setup
VerifiedSetup(u, token) ==
    IF auth.users[u].otp_secret # None /\ TotpVerify(auth.users[u].otp_secret, token)
    THEN auth' = [auth EXCEPT !.users[u].two_factor_setup_complete = TRUE,
                              !.pending_user_id = None, !.user_id = u,
                              !.verified = @ \cup {u}]
    ELSE auth' = auth
Api2faVerifySetup ==
    /\ \E token \in Tokens :
          IF auth.pending_user_id = None THEN auth' = auth
          ELSE VerifiedSetup(auth.pending_user_id, token)
    /\ LoadUnchanged

\* POST /api/2fa/login-verify
VerifiedLogin(u, token) ==
    IF auth.users[u].otp_secret # None /\ TotpVerify(auth.users[u].otp_secret, token)
    THEN auth' = [auth EXCEPT !.user_id = u, !.pending_user_id = None,
                              !.verified = @ \cup {u}]
    ELSE auth' = auth
Api2faLoginVerify ==
    /\ \E token \in Tokens :
          IF auth.pending_user_id = None THEN auth' = auth
          ELSE VerifiedLogin(auth.pending_user_id, token)
    /\ LoadUnchanged

\* GET /logout
Logout ==
    /\ auth.user_id # None
    /\ auth' = [auth EXCEPT !.user_id = None, !.pending_user_id = None]
    /\ LoadUnchanged

NextAuth == ApiLogin \/ Api2faSetup \/ Api2faVerifySetup \/ Api2faLoginVerify \/ Logout
SpecAuth == InitAuth /\ [][NextAuth]_vars

\* ------------------------------------------------------------ definitions
\* used by the properties
Completed == pc = "done" /\ events # <<>> /\ events[Len(events)].status = "complete"
Terminal(e) == e.status \in {"complete", "error"}
FactsBuiltNow == pc \in {"y90", "y95"} \/ Completed
AllKeys(facts) == {KeyOf(facts[i]) : i \in 1..Len(facts)}
\* the dedup key the loader resolves for row j of the data frame
RowKey(j) == KeyOf(FactRecord(df[j].row, maps))
\* the first row of the data frame with the key of row j
FirstWithKey(j) == Min({i \in 1..Len(df) : RowKey(i) = RowKey(j)})
LastEvent == events[Len(events)]

\* C1: no two rows of the fact table share (employee_id, date_id, shift_id).
C1_UniqueFactKey ==
    \A i, j \in 1..Len(fact_shifts) :
        i # j => <<fact_shifts[i].employee_id, fact_shifts[i].date_id, fact_shifts[i].shift_id>>
                 # <<fact_shifts[j].employee_id, fact_shifts[j].date_id, fact_shifts[j].shift_id>>
\* a second load has ended that met keys of the store and added further facts
C1_Witness ==
    /\ pc = "done" /\ loads = 2 /\ Len(pre.facts) >= 1
    /\ Len(fact_shifts) > Len(pre.facts) /\ skipped_details # <<>>

\* C2: when a workbook whose load completed is loaded again, the second load
\* completes, inserts no fact, reports every row it processes as a skip with
\* reason Duplicate and duplicate_type pre_existing, and leaves the row count
\* of the five dimension tables as it was.
C2_IdempotentReupload ==
    (reupload /\ pc = "done") =>
        /\ LastEvent.status = "complete"
        /\ LastEvent.data.inserted = 0
        /\ fact_shifts = pre.facts
        /\ Len(skipped_details) = Len(df)
        /\ \A i \in 1..Len(df) :
              /\ skipped_details[i].row = df[i].idx + 2
              /\ skipped_details[i].reason = "Duplicate"
              /\ skipped_details[i].duplicate_type = "pre_existing"
        /\ LastEvent.data.skipped_details = skipped_details
        /\ Len(dim_employees) = Len(pre.employees) /\ Len(dim_clients) = Len(pre.clients)
        /\ Len(dim_jobs) = Len(pre.jobs) /\ Len(dim_shifts) = Len(pre.shifts)
        /\ Len(dim_dates) = Len(pre.dates)
\* the second load of a two-row workbook whose first load inserted facts has ended
C2_Witness == reupload /\ pc = "done" /\ Len(df) = 2 /\ Len(pre.facts) >= 2

\* C3 (as claimed): every row whose key is not in the store before the load
\* and occurs earlier in the file yields a skip record with reason Duplicate
\* and duplicate_type intra_file that names the row number of the first
\* occurrence.
C3_IntraFileSkipNamesFirstRow ==
    Completed =>
        \A j \in 1..Len(df) :
            (RowKey(j) \notin AllKeys(pre.facts) /\ FirstWithKey(j) < j) =>
                \E n \in 1..Len(skipped_details) :
                    /\ skipped_details[n].row = df[j].idx + 2
                    /\ skipped_details[n].reason = "Duplicate"
                    /\ skipped_details[n].duplicate_type = "intra_file"
                    /\ skipped_details[n].original_row = df[FirstWithKey(j)].idx + 2

\* C4: first row wins.  The facts the store held before the load are left as
\* they were; a key of the file that the store did not hold gets exactly one
\* fact, which carries the client, the job and the measures of the first row
\* of the file with that key; a key the store held gets no further fact.
C4_FirstRowWins ==
    FactsBuiltNow =>
        /\ Len(fact_shifts) >= Len(pre.facts)
        /\ SubSeq(fact_shifts, 1, Len(pre.facts)) = pre.facts
        /\ \A j \in 1..Len(df) :
              LET first == df[FirstWithKey(j)].row
                  hits == {k \in 1..Len(fact_shifts) : KeyOf(fact_shifts[k]) = RowKey(j)}
              IN  IF RowKey(j) \in AllKeys(pre.facts)
                  THEN \A k \in hits : k <= Len(pre.facts)
                  ELSE /\ Cardinality(hits) = 1
                       /\ \A k \in hits :
                             /\ k > Len(pre.facts)
                             /\ fact_shifts[k].client_net = ClientNetValue(first)
                             /\ fact_shifts[k].paid_hours = SafeFloat(first.paid_hours)
                             /\ fact_shifts[k].client_hourly_rate = SafeFloat(first.client_hourly_rate)
                             /\ \E c \in 1..Len(dim_clients) :
                                   /\ dim_clients[c].client_id = fact_shifts[k].client_id
                                   /\ dim_clients[c].client_name = CleanString(first.client, UnknownClient)
                             /\ \E b \in 1..Len(dim_jobs) :
                                   /\ dim_jobs[b].job_id = fact_shifts[k].job_id
                                   /\ dim_jobs[b].job_name = CleanString(first.job_name, UnknownJob)
\* a load has completed whose two rows share a new key and differ in client
\* and measures, on a store that already held a fact
C4_Witness ==
    /\ Completed /\ Len(df) = 2 /\ Len(pre.facts) >= 1
    /\ RowKey(1) = RowKey(2) /\ RowKey(1) \notin AllKeys(pre.facts)
    /\ df[1].row.client # df[2].row.client
    /\ ClientNetValue(df[1].row) # ClientNetValue(df[2].row)

\* C5: there is one Employee row per full name, whatever the order of the
\* loads, and every fact references the row that bears the cleaned full name
\* of the source row it was built from.
C5_EmployeeReuse ==
    /\ \A i, j \in 1..Len(dim_employees) :
          i # j => dim_employees[i].full_name # dim_employees[j].full_name
    /\ Len(fact_src) = Len(fact_shifts)
    /\ \A k \in 1..Len(fact_shifts) :
          \E i \in 1..Len(dim_employees) :
              /\ dim_employees[i].employee_id = fact_shifts[k].employee_id
              /\ dim_employees[i].full_name = CleanString(fact_src[k].full_name, UnknownEmployee)
\* two loads have each added a fact of the same employee
C5_Witness ==
    /\ pc = "done" /\ loads = 2
    /\ \E i \in 1..Len(pre.facts), k \in (Len(pre.facts) + 1)..Len(fact_shifts) :
          fact_shifts[i].employee_id = fact_shifts[k].employee_id

\* C6 (as claimed): the Job dimension holds at most one row per job name.
C6_OneJobRowPerName ==
    \A i, j \in 1..Len(dim_jobs) : i # j => dim_jobs[i].job_name # dim_jobs[j].job_name

\* the client_net of the source rows a skip record designates by row number
SkippedRowsNet ==
    SumSeq([n \in 1..Len(skipped_details) |->
        SumSeq([i \in 1..Len(df) |->
            IF df[i].idx + 2 = skipped_details[n].row THEN ClientNetValue(df[i].row) ELSE 0])])
SourceNet == SumSeq([i \in 1..Len(df) |-> ClientNetValue(df[i].row)])

\* C7 (as claimed): a load without skips reports a persisted total equal to
\* the source total within the tolerance and match = true; a load with
\* skipped rows reports a persisted total equal to the source total minus the
\* client_net of the skipped rows within the tolerance.
C7_Reconciliation ==
    Completed =>
        /\ skipped_details = <<>> =>
              /\ Abs(LastEvent.data.verification.db_revenue - SourceNet) < Tolerance
              /\ LastEvent.data.verification.match
        /\ skipped_details # <<>> =>
              Abs(LastEvent.data.verification.db_revenue - (SourceNet - SkippedRowsNet)) < Tolerance

\* C8: a workbook that lacks a required column ends with an error event that
\* names the missing columns; no row is processed, no dimension row and no
\* fact row is inserted, and no complete event is emitted.
C8_MissingColumnsFatal ==
    (pc # "idle" /\ file.readable /\ MissingColumns(file.columns) # <<>>) =>
        /\ Store = pre
        /\ maps = NoMaps /\ facts_created = 0 /\ skipped_details = <<>>
        /\ \A i \in 1..Len(events) : events[i].status # "complete"
        /\ pc \notin {"y15", "y20", "y25", "y30", "y35", "y40", "y45", "y50", "y90", "y95"}
        /\ pc = "done" =>
              /\ LastEvent.status = "error"
              /\ LastEvent.missing_columns = MissingColumns(file.columns)
              /\ LastEvent.missing_columns # <<>>
\* such a load has ended on a store that holds facts
C8_Witness ==
    /\ pc = "done" /\ file.readable /\ MissingColumns(file.columns) # <<>>
    /\ Len(fact_shifts) >= 1 /\ Len(file.rows) >= 1

\* C9: the events of a load are progress events with percentages that never
\* decrease, followed, when the load has ended, by exactly one terminal event
\* (complete or error), which is the last event; a complete event carries
\* inserted, skipped_details and verification.
C9_EventStream ==
    /\ \A i \in 1..(Len(events) - 1) : events[i].status = "progress"
    /\ \A i, j \in 1..Len(events) :
          (i < j /\ events[i].status = "progress" /\ events[j].status = "progress")
              => events[i].progress <= events[j].progress
    /\ \A i \in 1..Len(events) :
          /\ events[i].status \in {"progress", "complete", "error"}
          /\ Terminal(events[i]) => pc = "done"
          /\ events[i].status = "complete" =>
                /\ "data" \in DOMAIN events[i]
                /\ DOMAIN events[i].data = {"inserted", "skipped_details", "verification"}
                /\ events[i].data.inserted = facts_created
    /\ pc = "done" => (events # <<>> /\ Terminal(LastEvent))
\* a load that filtered rows has completed: all fifteen progress events
\* and the complete event have been emitted
C9_Witness ==
    /\ Completed /\ Len(events) = 16
    /\ \E i \in 1..Len(events) : events[i].status = "progress" /\ events[i].progress = 14

\* C10 (as claimed): a load that was started reaches a complete or error
\* event whether or not the caller keeps reading, and the call itself performs
\* the load: once the caller is through with it, the terminal event exists.
C10_RunsToTerminalEvent ==
    pc \in {"done", "closed"} => (events # <<>> /\ Terminal(LastEvent))

\* C11: a load that got past the fact builder ends with a complete event
\* whatever the number of skipped rows and whatever the reconciler reports
\* (a mismatch, or an error of its own): the event carries the count of the
\* facts the load inserted and the skip records, and those facts are in the
\* store.
C11_SummaryAlways ==
    (pc = "done" /\ \E i \in 1..Len(events) : events[i] = Progress(90)) =>
        /\ LastEvent.status = "complete"
        /\ LastEvent.data.inserted = Len(fact_shifts) - Len(pre.facts)
        /\ LastEvent.data.skipped_details = skipped_details
        /\ SubSeq(fact_shifts, 1, Len(pre.facts)) = pre.facts
        /\ LastEvent.data.verification.match \in BOOLEAN
\* a load has completed that inserted a fact, skipped a row and reports a
\* mismatch
C11_Witness ==
    /\ Completed /\ ~LastEvent.data.verification.match
    /\ LastEvent.data.inserted >= 1 /\ skipped_details # <<>>
    /\ Len(fact_shifts) = Len(pre.facts) + LastEvent.data.inserted

\* a load has ended with the error raised by a bulk insert of facts
BatchFailed ==
    /\ pc = "done" /\ Len(events) >= 2
    /\ LastEvent = CriticalError /\ events[Len(events) - 1] = Progress(50)
\* the fact records the load staged
Staged == BuildFacts(df, maps, NothingBuilt(ExistingKeys(pre.facts, df))).fact_records

\* C12 (as claimed): when the insert of one batch fails, the load reports the
\* number of records it persisted, the records of the other batches are all
\* persisted (at most one batch is missing), and none is persisted twice.
C12_BatchFailureIsolated ==
    BatchFailed =>
        /\ "data" \in DOMAIN LastEvent
        /\ LastEvent.data.inserted = Len(fact_shifts) - Len(pre.facts)
        /\ Len(Staged) - (Len(fact_shifts) - Len(pre.facts)) <= batch_size
        /\ Cardinality(AllKeys(fact_shifts)) = Len(fact_shifts)

\* C13 (as claimed): a failed bulk insert of dimension rows does not abort the
\* load: every load that got past the validation of the columns and was
\* iterated to its end ends with a complete event.
C13_ResolverFailureRecovered ==
    (pc = "done" /\ BatchFailed = FALSE /\ \E i \in 1..Len(events) : events[i] = Progress(20)) =>
        LastEvent.status = "complete"

IsPrefix(a, b) == Len(a) <= Len(b) /\ SubSeq(b, 1, Len(a)) = a

\* C14: a load is append-only.  At every point of a load, and after it
\* completed or failed, each of the six tables begins with the rows it held
\* before the load, every attribute unchanged.
C14_AppendOnly ==
    /\ IsPrefix(pre.employees, dim_employees)
    /\ IsPrefix(pre.clients, dim_clients)
    /\ IsPrefix(pre.jobs, dim_jobs)
    /\ IsPrefix(pre.shifts, dim_shifts)
    /\ IsPrefix(pre.dates, dim_dates)
    /\ IsPrefix(pre.facts, fact_shifts)
\* a load has ended whose workbook gives a stored employee another role and
\* repeats the key of a stored fact with another client_net
C14_Witness ==
    /\ pc = "done"
    /\ \E i \in 1..Len(pre.employees), j \in 1..Len(df) :
          /\ pre.employees[i].full_name = EmployeeKey(df[j].row)
          /\ pre.employees[i].role # CleanString(df[j].row.role, Empty)
          /\ \E k \in 1..Len(pre.facts) :
                /\ KeyOf(pre.facts[k]) = RowKey(j)
                /\ pre.facts[k].client_net # ClientNetValue(df[j].row)

\* C15 (as claimed): on an empty store the workbook with row A, row B (the key
\* of A, another client) and row C (blank full_name) yields 1 inserted fact,
\* 2 skip records (row B: Duplicate, intra_file, naming row A's number; row C:
\* Missing Keys) and 1 new Employee row.
C15_Scenario ==
    (Completed /\ file = Sheet(<<RowA, RowB, RowE>>) /\ excluded_locations = {}
               /\ pre.employees = <<>> /\ pre.facts = <<>> /\ pre.shifts = <<>>) =>
        /\ LastEvent.data.inserted = 1
        /\ Len(fact_shifts) = 1
        /\ Len(skipped_details) = 2
        /\ skipped_details[1].row = 3
        /\ skipped_details[1].reason = "Duplicate"
        /\ skipped_details[1].duplicate_type = "intra_file"
        /\ skipped_details[1].original_row = 2
        /\ skipped_details[2].row = 4
        /\ skipped_details[2].reason = "Missing Keys"
        /\ Len(dim_employees) = 1

\* C16 (as claimed): while two loads run concurrently against the same store,
\* the fact table never holds two rows with the same (employee_id, date_id,
\* shift_id).
C16_UniqueUnderConcurrency == Cardinality(AllKeys(fact_shifts)) = Len(fact_shifts)

NoRepeat(q) == \A i, j \in 1..Len(q) : i # j => q[i] # q[j]
NewEmployeeKeys(new) == [i \in 1..Len(new) |-> new[i].full_name]
NewJobKeys(new) == [i \in 1..Len(new) |-> new[i].job_name]
NewShiftKeys(new) ==
    [i \in 1..Len(new) |-> <<new[i].shift_name, new[i].shift_start, new[i].shift_end>>]
NewDateKeys(new) == [i \in 1..Len(new) |-> new[i].date]

\* C17 (as claimed): the list of new rows each of the five resolvers hands to
\* its bulk insert holds no natural key twice (employee: full name; client:
\* client name; job: job name; shift: name, start, end; date: calendar date).
C17_StagedOncePerKey ==
    pc = "y20" =>
        /\ NoRepeat(NewEmployeeKeys(StageEmployees(UniqueEmployees(df), dim_employees, NoneStaged).new))
        /\ NoRepeat(StageClients(UniqueClients(df), dim_clients, NoneStaged).new)
        /\ NoRepeat(NewJobKeys(StageJobs(UniqueJobs(df), dim_jobs, NoneStaged).new))
        /\ NoRepeat(NewShiftKeys(StageShifts(UniqueShifts(df), dim_shifts, NoneStaged).new))
        /\ NoRepeat(NewDateKeys(StageDates(UniqueDates(df), dim_dates, NoneStaged).new))

\* the skip records a load holds for the source row with index label idx
SkipsOf(skipped, idx) == SelectSeq(skipped, LAMBDA item : item.row = idx + 2)
\* the dimensions among employee, date and shift whose id the mappings lack
MissingOf(rec) ==
    SelectSeq(<<"Employee", "Date", "Shift">>, LAMBDA dim :
        \/ dim = "Employee" /\ rec.employee_id = None
        \/ dim = "Date" /\ rec.date_id = None
        \/ dim = "Shift" /\ rec.shift_id = None)
MissingKeysRecord(item, rec) ==
    item.reason = "Missing Keys" /\ item.missing = MissingOf(rec)
RowSkippedForKeys(skips, rec) ==
    IF MissingOf(rec) # <<>>
    THEN Len(skips) = 1 /\ MissingKeysRecord(skips[1], rec)
    ELSE \A n \in 1..Len(skips) : skips[n].reason # "Missing Keys"

\* C18: when the fact builder returns, a row whose employee id, date id or
\* shift id is absent from the mappings has exactly one skip record, with
\* reason Missing Keys and naming exactly the absent dimensions, and has
\* produced no fact (the facts and the skip records add up to the rows, and
\* no fact of the load lacks one of the three ids); a row that lacks only its
\* client id or job id has no Missing Keys skip record.
C18_MissingKeysSkipped ==
    pc = "y90" =>
        /\ \A i \in 1..Len(df) :
              RowSkippedForKeys(SkipsOf(skipped_details, df[i].idx), FactRecord(df[i].row, maps))
        /\ facts_created + Len(skipped_details) = Len(df)
        /\ Len(fact_shifts) = Len(pre.facts) + facts_created
        /\ \A n \in Len(pre.facts) + 1..Len(fact_shifts) :
              None \notin {fact_shifts[n].employee_id, fact_shifts[n].date_id,
                           fact_shifts[n].shift_id}
\* a load in which one row lacks two of the three ids and is skipped, and
\* another row lacks its client id or job id and became a fact
C18_Witness ==
    /\ pc = "y90"
    /\ \E n \in 1..Len(skipped_details) :
          skipped_details[n].reason = "Missing Keys" /\ Len(skipped_details[n].missing) >= 2
    /\ \E n \in Len(pre.facts) + 1..Len(fact_shifts) :
          fact_shifts[n].client_id = None \/ fact_shifts[n].job_id = None

\* the rows of the frame that reach the duplicate check, as (key) records
ChecksDuplicate(rec) == None \notin {rec.employee_id, rec.date_id, rec.shift_id}
SnapshotAgrees(key, snapshot, facts) == key \in snapshot <=> key \in AllKeys(facts)

\* C19 (as claimed): when the fact builder is called, for every row of the
\* frame that reaches the duplicate check, the key of the row is in the
\* snapshot scoped to the file's date-id range exactly when some stored fact
\* has that key, in every store that loads and manual record requests build.
C19_ScopedSnapshotIsWholeTable ==
    pc = "y50" =>
        \A i \in 1..Len(df) :
            ChecksDuplicate(FactRecord(df[i].row, maps)) =>
                SnapshotAgrees(KeyOf(FactRecord(df[i].row, maps)),
                               ExistingKeys(fact_shifts, df), fact_shifts)

\* the totals of the reconciler as the claim states them
CountsAsSkipped(item) ==
    \/ item.reason = "Missing Keys"
    \/ item.reason = "Duplicate" /\ item.duplicate_type = "intra_file"
\* client_net of the source row a skip record designates (row = index label + 2)
DesignatedNet(item, d) ==
    SumSeq([i \in 1..Len(d) |->
              IF d[i].idx + 2 = item.row THEN ToNumeric(d[i].row.client_net) ELSE 0])
SkippedTotal(skipped, d) ==
    SumSeq([n \in 1..Len(skipped) |->
              IF CountsAsSkipped(skipped[n]) THEN DesignatedNet(skipped[n], d) ELSE 0])
RawSourceTotal(d) == SumSeq([i \in 1..Len(d) |-> ToNumeric(d[i].row.client_net)])
PersistedTotal(facts, date_ids) ==
    SumSeq([n \in 1..Len(facts) |->
              IF \E lo, hi \in date_ids : lo <= facts[n].date_id /\ facts[n].date_id <= hi
              THEN facts[n].client_net ELSE 0])
Reconciled(v, adjusted, persisted) ==
    /\ v.excel_revenue = adjusted
    /\ v.db_revenue = persisted
    /\ v.match <=> Abs(persisted - adjusted) < Tolerance

\* C20 (as claimed): the summary of a completed load reports
\* raw_source_total minus skipped_total, where skipped_total sums client_net
\* over exactly the rows skipped for Missing Keys or as intra_file duplicates,
\* the persisted total of the facts in the file's date-id range, and
\* match = true exactly when the two differ by less than the tolerance.
C20_ReconcilerTotals ==
    Completed =>
        Reconciled(LastEvent.data.verification,
                   RawSourceTotal(df) - SkippedTotal(skipped_details, df),
                   PersistedTotal(fact_shifts, FileDateIds(df)))

\* a fact row references stored dimension rows
References(f, st) ==
    /\ f.employee_id # None /\ f.employee_id \in Ids(st.employees, "employee_id")
    /\ f.date_id # None /\ f.date_id \in Ids(st.dates, "date_id")
    /\ f.shift_id # None /\ f.shift_id \in Ids(st.shifts, "shift_id")
    /\ f.client_id # None => f.client_id \in Ids(st.clients, "client_id")
    /\ f.job_id # None => f.job_id \in Ids(st.jobs, "job_id")

\* C21: in every state of every sequence of loads, each stored fact has an
\* employee_id, a date_id and a shift_id, and each of its five dimension ids
\* that is not NULL is the id of a stored row of that dimension.
C21_ReferentialIntegrity ==
    \A n \in 1..Len(fact_shifts) : References(fact_shifts[n], Store)
\* the fact builder has stored a fact whose client and job are NULL and has
\* skipped a row whose employee the mappings lack
C21_Witness ==
    /\ pc = "y90" /\ facts_created > 0
    /\ fact_shifts[Len(fact_shifts)].client_id = None
    /\ fact_shifts[Len(fact_shifts)].job_id = None
    /\ \E n \in 1..Len(skipped_details) : "Employee" \in Range(skipped_details[n].missing)

\* year*10000 + month*100 + day of a stored calendar date 'YYYY-MM-DD'
DerivedId(date_str) ==
    ToInt(SubSeq(date_str, 1, 4)) * 10000 + ToInt(SubSeq(date_str, 6, 7)) * 100
    + ToInt(SubSeq(date_str, 9, 10))

\* C22 (as claimed): every stored Date row has date_id = year*10000 +
\* month*100 + day of its calendar date and year = date_id div 10000, and the
\* Date resolver maps each date of the file to that derived id, in every
\* store that loads and manual record requests build.
C22_DateIdDerived ==
    /\ \A i \in 1..Len(dim_dates) :
          /\ dim_dates[i].date_id = DerivedId(dim_dates[i].date)
          /\ dim_dates[i].year = dim_dates[i].date_id \div 10000
    /\ \A k \in DOMAIN maps.dates : maps.dates[k] = DerivedId(k)

\* C23: for every date cell, the date cleaner returns a text of the shape
\* YYYY-MM-DD that is a calendar date, with the id year*10000 + month*100 +
\* day of that date, and cleaning the returned text returns the same text and
\* the same id; this includes the sentinel 2000-01-01 / 20000101.
C23_DateCleanerIdempotent ==
    /\ (cleaning.fn = "date" /\ cleaning.out # <<>>) =>
          /\ IsIsoShape(cleaning.out[1])
          /\ ParseDate(cleaning.out[1]) # <<>>
          /\ cleaning.out[2] = DerivedId(cleaning.out[1])
    /\ (cleaning.fn = "date" /\ cleaning.again # <<>>) => cleaning.again = cleaning.out
\* a day-first text of a valid date has been cleaned twice
C23_Witness ==
    /\ cleaning.fn = "date"
    /\ cleaning.value = <<"2", "9", "/", "0", "2", "/", "2", "0", "2", "4">>
    /\ cleaning.out = <<<<"2", "0", "2", "4", "-", "0", "2", "-", "2", "9">>, 20240229>>
    /\ cleaning.again = cleaning.out

\* the time cells above that denote no time of day
MalformedTimes ==
    {<<>>, <<"a", "b", "c">>, <<"2", "5", ":", "9", "9">>, <<"N", "a", "N">>, <<"2", "4">>,
     <<"-", "1">>, <<"a", ":", "b">>}
\* the date cells above that denote no calendar date
MalformedDate(v) ==
    \/ v \in {NaN, <<>>, <<"n", "/", "a">>, <<"=", "A", "1">>}
    \/ v \in YearFirstTexts \cup YearLastTexts /\ ParseDate(v) = <<>>

\* C24 (as claimed): the time cleaner returns a time of day HH:MM:SS for
\* every cell and 00:00:00 for every malformed one ("abc", the empty text,
\* "25:99"); the date cleaner returns the sentinel 2000-01-01 / 20000101 for
\* every malformed or missing date.
C24_CleanersFallBack ==
    /\ (cleaning.fn = "time" /\ cleaning.out # <<>>) =>
          /\ ValidTimeText(cleaning.out)
          /\ cleaning.value \in MalformedTimes => cleaning.out = Midnight
    /\ (cleaning.fn = "date" /\ cleaning.out # <<>> /\ MalformedDate(cleaning.value)) =>
          cleaning.out = <<default_date, default_id>>

\* C25: in a load that ends with a complete event, every row left by the
\* filter has one outcome: it has at most one skip record, every skip record
\* designates a row of the frame, the rows without a skip record are as many
\* as the facts reported (inserted + skip records = rows), and the facts
\* reported are as many as the fact rows the load added to the store.
C25_RowAccounting ==
    Completed =>
        /\ \A i \in 1..Len(df) : Len(SkipsOf(skipped_details, df[i].idx)) <= 1
        /\ \A n \in 1..Len(skipped_details) :
              \E i \in 1..Len(df) : df[i].idx + 2 = skipped_details[n].row
        /\ LastEvent.data.inserted + Len(LastEvent.data.skipped_details) = Len(df)
        /\ LastEvent.data.skipped_details = skipped_details
        /\ LastEvent.data.inserted = Len(fact_shifts) - Len(pre.facts)
\* a completed load of a workbook of which the filter dropped a row, one row
\* became a fact and one was skipped
C25_Witness ==
    /\ Completed /\ Len(df) < Len(file.rows)
    /\ LastEvent.data.inserted = 1 /\ Len(skipped_details) = 1

\* C26 (as claimed): when the Date resolver has returned, every date id of
\* the mapping is the id of a stored Date row, also when the bulk insert of
\* the new dates failed because a concurrent load had inserted one of them.
C26_MappedDatesStored ==
    pc = "y45" => \A k \in DOMAIN maps.dates : maps.dates[k] \in Ids(dim_dates, "date_id")

DenotesDate(v) == CleanDateWithId(v) # <<default_date, default_id>> \/ v = default_date
SameDate(a, b) ==
    a = b \/ (DenotesDate(a) /\ DenotesDate(b) /\ CleanDateWithId(a) = CleanDateWithId(b))
SameShiftWorked(r, q) ==
    EmployeeKey(r) = EmployeeKey(q) /\ ShiftKey(r) = ShiftKey(q) /\ SameDate(r.date, q.date)
EarlierTwin(i) ==
    \/ \E j \in 1..(i - 1) : SameShiftWorked(df[i].row, df[j].row)
    \/ \E n \in 1..Len(pre.facts) : SameShiftWorked(df[i].row, fact_src[n])

\* C28 (as claimed): a row is skipped as a Duplicate only if an earlier row
\* of the file or a stored fact has the same employee name, the same shift
\* and the same calendar date; rows whose date cells are different
\* unparseable or missing values are not duplicates of each other.
C28_DuplicateMeansSameDate ==
    Completed =>
        \A i \in 1..Len(df) :
            (\E n \in 1..Len(skipped_details) :
                /\ skipped_details[n].row = df[i].idx + 2
                /\ skipped_details[n].reason = "Duplicate") => EarlierTwin(i)

\* the job and the shift a fact references are those of its source row
JobOfRow(f, row) ==
    f.job_id # None =>
        \E j \in 1..Len(dim_jobs) :
            /\ dim_jobs[j].job_id = f.job_id
            /\ dim_jobs[j].job_name = CleanString(row.job_name, UnknownJob)
ShiftOfRow(f, row) ==
    \E j \in 1..Len(dim_shifts) :
        /\ dim_shifts[j].shift_id = f.shift_id
        /\ dim_shifts[j].shift_name = CleanShift(row).shift_name
        /\ dim_shifts[j].shift_start = CleanShift(row).shift_start
        /\ dim_shifts[j].shift_end = CleanShift(row).shift_end

\* C29 (as claimed): every stored fact's job_id is the id of a Job row named
\* as the cleaned job_name of the row the fact was built from, and its
\* shift_id the id of the Shift row with that row's cleaned name, start and
\* end, also for names that hold the character '|'.
C29_JobAndShiftOfRow ==
    \A n \in 1..Len(fact_shifts) :
        JobOfRow(fact_shifts[n], fact_src[n]) /\ ShiftOfRow(fact_shifts[n], fact_src[n])

\* C30 (as claimed): for a user whose two-factor authentication is enabled
\* and set up, /api/2fa/setup never returns the otp_secret to a client that
\* has only passed the password check, and the user is logged in only
\* through a successful totp.verify.
C30_SecondFactorHolds ==
    /\ auth.leaked = {}
    /\ \A u \in DOMAIN auth.users :
          (auth.user_id = u /\ auth.users[u].two_factor_enabled) => u \in auth.verified

====
